---- MODULE Spec2Model ----
(***************************************************************************)
(* Billing core of the food-subscription application: the daily-extras     *)
(* admission handler (Extras.save / Extras.deleteEntry), the client data   *)
(* layer DB with its two fetchAPI definitions, and the monthly and daily   *)
(* invoice aggregators with the display formatter.                         *)
(*                                                                         *)
(* The module text is ASCII: the en dash U+2013 and the rupee sign U+20B9  *)
(* of formatExtraDisplay are written as the escapes EnDash and Rupee.      *)
(***************************************************************************)
EXTENDS Integers, Sequences, FiniteSets, TLC

VARIABLES
    customers,   \* server table: sequence of customer records
    menuItems,   \* server table: sequence of menu-item records
    extras,      \* server table: sequence of DailyExtra records
    advances,    \* server table: sequence of advance-payment records
    nextId,      \* next identity the server hands out
    clock,       \* server time, advanced by every write request it serves
    ret,         \* the last operation: its name, inputs and outcome
    admitted,    \* history: per slot, the last write the store admitted
    auth,        \* the browser of the login page: its time, the localStorage
                 \* keys of Auth and the Auth.login calls awaiting the digest
    lockedAt,    \* history: the time recordFailedAttempt last locked the account
    pending,     \* the gateway at work: whether its upsert is atomic, the POSTs
                 \* of extras it has not finished, the bodies sent so far, and
                 \* an invoice computation between two of its fetches
    search       \* the search box: Search.debounceTimer, the timers the
                 \* browser holds, its time, and the history of inputs and of
                 \* performSearch calls

vars == <<customers, menuItems, extras, advances, nextId, clock, ret, admitted,
          auth, lockedAt, pending, search>>

-----------------------------------------------------------------------------
(* Bounds of the model                                                     *)

MaxClock == 1      \* write requests served after the initial table
MaxAdvances == 1   \* advance payments explored

-----------------------------------------------------------------------------
(* JavaScript values that are not numbers, in numeric positions            *)

NaN == -1000001        \* parseFloat('') / parseFloat(null) / parseFloat(undefined)
Null == -1000002       \* JSON null (JSON.stringify turns NaN into null)
Undefined == -1000003  \* a property that is absent

IsNumber(x) == x \notin {NaN, Null, Undefined}

\* parseFloat applied to a JSON value.
parseFloat(x) == IF IsNumber(x) THEN x ELSE NaN

\* JSON.stringify of a numeric property: NaN is serialised as null.
JsonNumber(x) == IF x = NaN THEN Null ELSE x

\* a + b, a - b, a * b of JavaScript numbers.
JsAdd(a, b) == IF a = NaN \/ b = NaN THEN NaN ELSE a + b
JsSub(a, b) == IF a = NaN \/ b = NaN THEN NaN ELSE a - b
JsMul(a, b) == IF a = NaN \/ b = NaN THEN NaN ELSE a * b

\* a < b of JavaScript numbers: false whenever an operand is NaN.
JsLess(a, b) == a # NaN /\ b # NaN /\ a < b

\* `${x}` of a numeric property.
NumStr(x) ==
    CASE x = NaN -> "NaN"
      [] x = Null -> "null"
      [] x = Undefined -> "undefined"
      [] x < 0 -> "-" \o ToString(0 - x)
      [] OTHER -> ToString(x)

-----------------------------------------------------------------------------
(* Strings                                                                 *)

EnDash == "\\u2013"
Rupee == "\\u20B9"

\* The white space String.prototype.trim removes (among the characters used).
WhiteSpace == {" ", "\t", "\n"}

RECURSIVE TrimLeft(_)
TrimLeft(s) ==
    IF Len(s) > 0 /\ SubSeq(s, 1, 1) \in WhiteSpace THEN TrimLeft(SubSeq(s, 2, Len(s))) ELSE s

RECURSIVE TrimRight(_)
TrimRight(s) ==
    IF Len(s) > 0 /\ SubSeq(s, Len(s), Len(s)) \in WhiteSpace
    THEN TrimRight(SubSeq(s, 1, Len(s) - 1)) ELSE s

\* String.prototype.trim
Trim(s) == TrimRight(TrimLeft(s))

\* String.prototype.includes
Includes(s, sub) ==
    \E i \in 1..(Len(s) - Len(sub) + 1) : SubSeq(s, i, i + Len(sub) - 1) = sub

\* String(n).padStart(2, '0')
PadStart2(n) == IF n < 10 THEN "0" \o ToString(n) ELSE ToString(n)

RECURSIVE JoinBr_blank(_)
\* Array.prototype.join(' ')
JoinBr_blank(ss) ==
    IF Len(ss) = 0 THEN ""
    ELSE IF Len(ss) = 1 THEN ss[1]
    ELSE ss[1] \o " " \o JoinBr_blank(Tail(ss))

RECURSIVE JoinBr(_)
\* Array.prototype.join('<br>')
JoinBr(ss) ==
    IF Len(ss) = 0 THEN ""
    ELSE IF Len(ss) = 1 THEN ss[1]
    ELSE ss[1] \o "<br>" \o JoinBr(Tail(ss))

-----------------------------------------------------------------------------
(* Calendar                                                                *)

IsLeap(y) == (y % 4 = 0 /\ y % 100 # 0) \/ y % 400 = 0

\* The length of a month with every fourth year taken as a leap year.
DaysInMonth_everyFourthYear(year, month) ==
    CASE month \in {0, 2, 4, 6, 7, 9, 11} -> 31
      [] month \in {3, 5, 8, 10} -> 30
      [] OTHER -> IF year % 4 = 0 THEN 29 ELSE 28

\* new Date(year, month + 1, 0).getDate(), month counted from 0
DaysInMonth(year, month) ==
    CASE month \in {0, 2, 4, 6, 7, 9, 11} -> 31
      [] month \in {3, 5, 8, 10} -> 30
      [] OTHER -> IF IsLeap(year) THEN 29 ELSE 28

\* parseInt of a run of decimal digits
DigitVal(c) ==
    CASE c = "0" -> 0 [] c = "1" -> 1 [] c = "2" -> 2 [] c = "3" -> 3 [] c = "4" -> 4
      [] c = "5" -> 5 [] c = "6" -> 6 [] c = "7" -> 7 [] c = "8" -> 8 [] c = "9" -> 9

RECURSIVE DigitsVal(_)
DigitsVal(s) ==
    IF Len(s) = 0 THEN 0
    ELSE 10 * DigitsVal(SubSeq(s, 1, Len(s) - 1)) + DigitVal(SubSeq(s, Len(s), Len(s)))

\* new Date("YYYY-MM-DD"): the instant 00:00 UTC of that calendar date,
\* kept as its UTC calendar fields (m counted from 1).
NewDate(str) ==
    [y |-> DigitsVal(SubSeq(str, 1, 4)),
     m |-> DigitsVal(SubSeq(str, 6, 7)),
     d |-> DigitsVal(SubSeq(str, 9, 10))]

\* `${year}-${pad(month + 1)}-${pad(day)}` and toISOString().split('T')[0]
IsoDate(y, m, d) == ToString(y) \o "-" \o PadStart2(m) \o "-" \o PadStart2(d)

ToISODateString(t) == IsoDate(t.y, t.m, t.d)

PrevDay(t) ==
    IF t.d > 1 THEN [t EXCEPT !.d = t.d - 1]
    ELSE IF t.m > 1 THEN [y |-> t.y, m |-> t.m - 1, d |-> DaysInMonth(t.y, t.m - 2)]
    ELSE [y |-> t.y - 1, m |-> 12, d |-> 31]

\* The calendar fields of a 00:00 UTC instant in the browser's time zone
\* (tz: minutes east of UTC): the previous day west of Greenwich.
LocalFields(t, tz) == IF tz < 0 THEN PrevDay(t) ELSE t

getFullYear(t, tz) == LocalFields(t, tz).y
getMonth(t, tz) == LocalFields(t, tz).m - 1
getDate(t, tz) == LocalFields(t, tz).d

\* toLocaleString('default', { month: 'long' }) of month index m (from 0)
MonthName(m) ==
    <<"January", "February", "March", "April", "May", "June", "July",
      "August", "September", "October", "November", "December">>[m + 1]

-----------------------------------------------------------------------------
(* Data                                                                    *)

MealTypes == {"breakfast", "lunch", "dinner"}

\* The customers and menu items of the server database.
SeedCustomers ==
    << [id |-> "c1", name |-> "Asha", subscriptionType |-> "daily",
        dailyAmount |-> 300, status |-> "active"],
       [id |-> "c2", name |-> "Ravi", subscriptionType |-> "monthly",
        dailyAmount |-> 9000, status |-> "active"] >>

SeedMenuItems ==
    << [id |-> "m1", name |-> "Veg Thali", category |-> "lunch",
        price |-> 80, available |-> TRUE],
       [id |-> "m2", name |-> "Idli", category |-> "breakfast",
        price |-> 40, available |-> TRUE] >>

\* What the browser's localStorage holds under bc_customers, bc_menu_items
\* and bc_daily_extras (data of the offline edition; nothing here writes it).
LocalCustomers ==
    << [id |-> "c1", name |-> "Asha", subscriptionType |-> "daily",
        dailyAmount |-> 300, status |-> "active"] >>

LocalMenuItems ==
    << [id |-> "m1", name |-> "Veg Thali", category |-> "lunch",
        price |-> 75, available |-> TRUE] >>

LocalDailyExtras ==
    << [id |-> 0, customerId |-> "c1", date |-> "2026-04-06", mealType |-> "dinner",
        menuItemId |-> "m1", price |-> 75, notes |-> "",
        createdAt |-> 0, updatedAt |-> 0] >>

\* The server database as one value.
Store == [customers |-> customers, menuItems |-> menuItems,
          extras |-> extras, advances |-> advances]

-----------------------------------------------------------------------------
(* JSON values as fetchAPI returns them                                    *)

JObj(r) == [k |-> "obj", o |-> r]
JList(l) == [k |-> "list", l |-> l]
JNull == [k |-> "null"]
Thrown == [k |-> "throw"]

\* if (!x): only null is falsy among the values above (an array is truthy).
Falsy(x) == x.k = "null"

\* x.<field> of a fetched value: undefined unless x is an object.
FieldStr(x, f) == IF x.k = "obj" THEN x.o[f] ELSE "undefined"
FieldNum(x, f) == IF x.k = "obj" THEN x.o[f] ELSE Undefined

\* The array a list-typed call site goes on with.
AsList(x) == IF x.k = "list" THEN x.l ELSE <<>>

-----------------------------------------------------------------------------
(* Record Store Gateway: the REST routes of the server                     *)

\* GET /customers/:id
SrvGetCustomer(S, id) ==
    LET hit == SelectSeq(S.customers, LAMBDA c : c.id = id)
    IN  IF hit = <<>> THEN JNull ELSE JObj(hit[1])

\* GET /menu, GET /extras
SrvListMenu(S) == JList(S.menuItems)
SrvListExtras(S) == JList(S.extras)

\* GET /extras/date/:date
SrvExtrasForDate(S, date) == JList(SelectSeq(S.extras, LAMBDA e : e.date = date))

\* GET /advance?customerId=&year=
SrvListAdvances(S, customerId, year) ==
    JList(SelectSeq(S.advances, LAMBDA p : p.customerId = customerId /\ p.year = year))

SameSlot(e, x) ==
    e.customerId = x.customerId /\ e.date = x.date /\ e.mealType = x.mealType

\* POST /extras: upsertExtra.  An entry of the same (customer, date, meal
\* slot) is overwritten in place, keeping id and createdAt; otherwise a
\* new entry gets a fresh id.
SrvUpsertExtra(ex, x, id, now) ==
    IF \E i \in 1..Len(ex) : SameSlot(ex[i], x)
    THEN [i \in 1..Len(ex) |->
            IF SameSlot(ex[i], x)
            THEN [ex[i] EXCEPT !.menuItemId = x.menuItemId, !.price = x.price,
                               !.notes = x.notes, !.updatedAt = now]
            ELSE ex[i]]
    ELSE Append(ex, [id |-> id, customerId |-> x.customerId, date |-> x.date,
                     mealType |-> x.mealType, menuItemId |-> x.menuItemId,
                     price |-> x.price, notes |-> x.notes,
                     createdAt |-> now, updatedAt |-> now])

\* The find of upsertExtra by itself: the id of the entry of the slot, Null
\* when there is none.
SrvFindExtra(ex, x) ==
    LET hit == SelectSeq(ex, LAMBDA e : SameSlot(e, x))
    IN  IF hit = <<>> THEN Null ELSE hit[1].id

\* The write of upsertExtra by itself, after a find that gave found: the
\* entry of that id is overwritten, or a new entry is added.
SrvWriteExtra(ex, x, found, id, now) ==
    IF found # Null
    THEN [i \in 1..Len(ex) |->
            IF ex[i].id = found
            THEN [ex[i] EXCEPT !.menuItemId = x.menuItemId, !.price = x.price,
                               !.notes = x.notes, !.updatedAt = now]
            ELSE ex[i]]
    ELSE Append(ex, [id |-> id, customerId |-> x.customerId, date |-> x.date,
                     mealType |-> x.mealType, menuItemId |-> x.menuItemId,
                     price |-> x.price, notes |-> x.notes,
                     createdAt |-> now, updatedAt |-> now])

\* POST /extras/delete-by-details: deleteExtras.  mealType "null" stands
\* for the JSON null of an omitted meal slot.
SrvDeleteExtras(ex, customerId, date, mealType) ==
    SelectSeq(ex, LAMBDA e :
        ~(e.customerId = customerId /\ e.date = date
          /\ (mealType = "null" \/ e.mealType = mealType)))

\* POST /advance
SrvAddAdvance(adv, p, id) ==
    Append(adv, [id |-> id, customerId |-> p.customerId, amount |-> p.amount,
                 month |-> p.month, year |-> p.year])

\* String.prototype.startsWith
StartsWith(s, prefix) ==
    Len(s) >= Len(prefix) /\ SubSeq(s, 1, Len(prefix)) = prefix

\* One request as the server sees it.  GET routes read; POST /advance adds
\* a payment, PUT /menu/:id overwrites the fields sent, DELETE /menu/:id
\* removes the item, POST /customers adds a customer under a new id and
\* PUT /customers/:id overwrites the fields sent.  (The writes of extras are
\* served by SrvUpsertExtra and SrvDeleteExtras.)
SrvServe(S, req) ==
    IF req.method = "GET" THEN S
    ELSE IF req.method = "POST" /\ req.endpoint = "/customers"
    THEN [S EXCEPT !.customers =
            Append(@, [id |-> "c" \o ToString(Len(@) + 1)] @@ req.body)]
    ELSE IF req.method = "PUT" /\ StartsWith(req.endpoint, "/customers/")
    THEN [S EXCEPT !.customers =
            [i \in 1..Len(@) |->
                IF @[i].id = SubSeq(req.endpoint, 12, Len(req.endpoint))
                THEN [f \in DOMAIN @[i] \cup DOMAIN req.body |->
                        IF f \in DOMAIN req.body THEN req.body[f] ELSE @[i][f]]
                ELSE @[i]]]
    ELSE IF req.method = "POST" /\ req.endpoint = "/advance"
    THEN [S EXCEPT !.advances = SrvAddAdvance(@, req.body, Len(@) + 1)]
    ELSE IF req.method = "PUT" /\ StartsWith(req.endpoint, "/menu/")
    THEN [S EXCEPT !.menuItems =
            [i \in 1..Len(@) |->
                IF @[i].id = SubSeq(req.endpoint, 7, Len(req.endpoint))
                THEN [f \in DOMAIN @[i] |->
                        IF f \in DOMAIN req.body THEN req.body[f] ELSE @[i][f]]
                ELSE @[i]]]
    ELSE IF req.method = "DELETE" /\ StartsWith(req.endpoint, "/menu/")
    THEN [S EXCEPT !.menuItems =
            SelectSeq(@, LAMBDA it : it.id # SubSeq(req.endpoint, 7, Len(req.endpoint)))]
    ELSE S

\* The store after the requests of a sequence that reached the server.
RECURSIVE SrvAfter(_, _, _)
SrvAfter(S, reqs, net) ==
    IF reqs = <<>> THEN S
    ELSE SrvAfter(IF net[Head(reqs).fetch] = "ok" THEN SrvServe(S, Head(reqs)) ELSE S,
                  Tail(reqs), net)

-----------------------------------------------------------------------------
(* DB: the client data layer                                               *)

\* fetchAPI(endpoint) without options: fetch defaults to GET.  fetch names
\* the entry of net that decides the fate of the request.
Get(fetch, endpoint) ==
    [fetch |-> fetch, method |-> "GET", endpoint |-> endpoint, body |-> JNull]

\* getLocalFallback(endpoint)
getLocalFallback(endpoint) ==
    IF Includes(endpoint, "/customers") THEN JList(LocalCustomers)
    ELSE IF Includes(endpoint, "/menu") THEN JList(LocalMenuItems)
    ELSE IF Includes(endpoint, "/extras") THEN JList(LocalDailyExtras)
    ELSE IF Includes(endpoint, "/invoices") THEN JList(<<>>)
    ELSE IF Includes(endpoint, "/advance") THEN JList(<<>>)
    ELSE JList(<<>>)

\* fetchAPI(endpoint, options).  version 1 is the definition that opens the
\* file, version 2 the one that closes it.  net is what the network did
\* with this request: "ok" (the server answered with `response`) or
\* "down" (no connection, or a non-OK / non-JSON answer).
fetchAPI(version, net, endpoint, response) ==
    IF net = "ok" THEN response
    ELSE IF version = 1 THEN getLocalFallback(endpoint)
    ELSE Thrown

getCustomer(version, net, S, id) ==
    fetchAPI(version, net, "/customers/" \o id, SrvGetCustomer(S, id))

getMenuItems(version, net, S) == fetchAPI(version, net, "/menu", SrvListMenu(S))

getDailyExtras(version, net, S) == fetchAPI(version, net, "/extras", SrvListExtras(S))

getExtrasByDate(version, net, S, date) ==
    fetchAPI(version, net, "/extras/date/" \o date, SrvExtrasForDate(S, date))

getAdvancePayments(version, net, S, customerId, year) ==
    fetchAPI(version, net,
             "/advance?customerId=" \o customerId \o "&year=" \o ToString(year),
             SrvListAdvances(S, customerId, year))

\* getExtrasByCustomer: extras.filter(e => e.customerId === customerId)
getExtrasByCustomer(version, net, S, customerId) ==
    LET r == getDailyExtras(version, net, S)
    IN  IF r.k = "throw" THEN Thrown
        ELSE JList(SelectSeq(AsList(r), LAMBDA e : e.customerId = customerId))

\* getExtrasByCustomerAndMonth: the month is read in the browser's time zone
getExtrasByCustomerAndMonth(version, net, S, tz, customerId, year, month) ==
    LET r == getExtrasByCustomer(version, net, S, customerId)
    IN  IF r.k = "throw" THEN Thrown
        ELSE JList(SelectSeq(AsList(r), LAMBDA e :
                     /\ getFullYear(NewDate(e.date), tz) = year
                     /\ getMonth(NewDate(e.date), tz) = month))

\* JSON.stringify(extra) losing the note.
JsonExtra_dropNotes(x) == [x EXCEPT !.price = JsonNumber(x.price), !.notes = ""]

\* JSON.stringify(extra): the body of the POST
JsonExtra(x) == [x EXCEPT !.price = JsonNumber(x.price)]

\* addDailyExtra with the meal slot sent under a name the server does not
\* read (mealTime for mealType): the slot of the request is undefined.
addDailyExtra_mealTime(version, net, ex, extra, id, now) ==
    LET body == [JsonExtra(extra) EXCEPT !.mealType = "undefined"]
        after == IF net = "ok" THEN SrvUpsertExtra(ex, body, id, now) ELSE ex
    IN  [extras |-> after, out |-> fetchAPI(version, net, "/extras", JObj(body))]

\* addDailyExtra with the date sent as a Date object, which JSON.stringify
\* writes as a full timestamp.
addDailyExtra_dateObject(version, net, ex, extra, id, now) ==
    LET body == [JsonExtra(extra) EXCEPT !.date = extra.date \o "T00:00:00.000Z"]
        after == IF net = "ok" THEN SrvUpsertExtra(ex, body, id, now) ELSE ex
    IN  [extras |-> after, out |-> fetchAPI(version, net, "/extras", JObj(body))]

\* addDailyExtra with the date replaced by the time of the call.
addDailyExtra_callTime(version, net, ex, extra, id, now) ==
    LET body == [JsonExtra(extra) EXCEPT !.date = "2026-04-05T00:00:" \o PadStart2(now)]
        after == IF net = "ok" THEN SrvUpsertExtra(ex, body, id, now) ELSE ex
    IN  [extras |-> after, out |-> fetchAPI(version, net, "/extras", JObj(body))]

\* addDailyExtra(extra): POST /extras.  The table after the call and the
\* value the call resolves to.
addDailyExtra(version, net, ex, extra, id, now) ==
    LET after == IF net = "ok" THEN SrvUpsertExtra(ex, JsonExtra(extra), id, now) ELSE ex
        hit == SelectSeq(after, LAMBDA e : SameSlot(e, extra))
    IN  [extras |-> after,
         out |-> fetchAPI(version, net, "/extras",
                          IF hit = <<>> THEN JNull ELSE JObj(hit[1]))]

\* deleteExtraByDetails(customerId, date, mealType = null)
deleteExtraByDetails(version, net, ex, customerId, date, mealType) ==
    LET after == IF net = "ok" THEN SrvDeleteExtras(ex, customerId, date, mealType) ELSE ex
    IN  [extras |-> after,
         out |-> fetchAPI(version, net, "/extras/delete-by-details",
                          JObj([removed |-> Len(ex) - Len(after)]))]

\* a || b for a number a: NaN and 0 are falsy
OrNumber(a, b) == IF a = NaN \/ a = 0 THEN b ELSE a

\* a || b for a string a: '' is falsy
OrString(a, b) == IF a = "" THEN b ELSE a

\* addCustomer(customer) for a customer as Customers.save makes it: POST
\* /customers with the defaults filled in; today is the date of the call.
addCustomer(customer, today) ==
    [fetch |-> "customer", method |-> "POST", endpoint |-> "/customers",
     body |-> [name |-> customer.name,
               mobile |-> customer.mobile,
               address |-> OrString(customer.address, ""),
               subscriptionType |-> OrString(customer.subscriptionType, "daily"),
               dailyAmount |-> OrNumber(parseFloat(customer.dailyAmount), 300),
               mealTimes |-> <<"breakfast", "lunch", "dinner">>,
               advanceAmount |-> OrNumber(parseFloat(Undefined), 0),
               referral |-> "",
               startDate |-> OrString(customer.startDate, today),
               status |-> OrString(customer.status, "active")]]

\* updateCustomer(id, updates): PUT /customers/:id with the updates as body
updateCustomer(id, updates) ==
    [fetch |-> "customer", method |-> "PUT", endpoint |-> "/customers/" \o id,
     body |-> [updates EXCEPT !.dailyAmount = JsonNumber(@)]]

\* updateMenuItem(id, updates): PUT /menu/:id with the updates as body
updateMenuItem(id, updates) ==
    [fetch |-> "menu", method |-> "PUT", endpoint |-> "/menu/" \o id, body |-> updates]

\* deleteMenuItem(id): DELETE /menu/:id
deleteMenuItem(id) ==
    [fetch |-> "menu", method |-> "DELETE", endpoint |-> "/menu/" \o id, body |-> JNull]

\* addAdvancePayment(payment): POST /advance
addAdvancePayment(version, net, adv, payment, id) ==
    LET after == IF net = "ok" THEN SrvAddAdvance(adv, payment, id) ELSE adv
    IN  [advances |-> after,
         out |-> fetchAPI(version, net, "/advance", JObj(payment))]

-----------------------------------------------------------------------------
(* Display Formatter                                                       *)

\* menuItems.find(m => m.id === id)
findMenuItem(items, id) ==
    LET hit == SelectSeq(items, LAMBDA m : m.id = id)
    IN  IF hit = <<>> THEN [k |-> "undefined"] ELSE JObj(hit[1])

\* formatExtraDisplay showing the price of the menu item when it resolves.
formatExtraDisplay_menuPrice(extra, menuItem) ==
    LET name == IF menuItem.k = "obj" THEN menuItem.o.name ELSE "Item"
        price == IF menuItem.k = "obj" THEN menuItem.o.price ELSE extra.price
        display == name \o " " \o EnDash \o " " \o Rupee \o NumStr(price)
    IN  IF extra.notes # "" /\ Trim(extra.notes) # ""
        THEN display \o " (" \o extra.notes \o ")"
        ELSE display

\* formatExtraDisplay appending every non-empty note, blank or not.
formatExtraDisplay_untrimmed(extra, menuItem) ==
    LET name == IF menuItem.k = "obj" THEN menuItem.o.name ELSE "Item"
        display == name \o " " \o EnDash \o " " \o Rupee \o NumStr(extra.price)
    IN  IF extra.notes # ""
        THEN display \o " (" \o extra.notes \o ")"
        ELSE display

\* formatExtraDisplay(extra, menuItem)
formatExtraDisplay(extra, menuItem) ==
    LET name == IF menuItem.k = "obj" THEN menuItem.o.name ELSE "Item"
        display == name \o " " \o EnDash \o " " \o Rupee \o NumStr(extra.price)
    IN  IF extra.notes # "" /\ Trim(extra.notes) # ""
        THEN display \o " (" \o extra.notes \o ")"
        ELSE display

\* list.map(e => this.formatExtraDisplay(e, findMenuItem(e.menuItemId)))
Displays(list, items) ==
    [i \in 1..Len(list) |-> formatExtraDisplay(list[i], findMenuItem(items, list[i].menuItemId))]

-----------------------------------------------------------------------------
(* Invoice Aggregator                                                      *)

\* list.forEach(e => total += parseFloat(e.price))
RECURSIVE AddPrices(_, _)
AddPrices(total, list) ==
    IF list = <<>> THEN total
    ELSE AddPrices(JsAdd(total, parseFloat(Head(list).price)), Tail(list))

\* matchDate(e.date) && e.mealType === meal, for the day's dateStr
DayMeals(list, dateStr, meal) ==
    SelectSeq(list, LAMBDA e :
        ToISODateString(NewDate(e.date)) = dateStr /\ e.mealType = meal)

\* The running total of one meal slot after the loop has done days 1..day.
RECURSIVE MealTotal(_, _, _, _, _)
MealTotal(list, year, month, meal, day) ==
    IF day = 0 THEN 0
    ELSE AddPrices(MealTotal(list, year, month, meal, day - 1),
                   DayMeals(list, IsoDate(year, month + 1, day), meal))

\* One cell of the monthly table, left empty when the slot has no entry.
MonthCell_empty(list, items, dateStr, meal) ==
    JoinBr(Displays(DayMeals(list, dateStr, meal), items))

\* One cell of the monthly table.
MonthCell(list, items, dateStr, meal) ==
    LET dayMeals == DayMeals(list, dateStr, meal)
    IN  IF Len(dayMeals) > 0 THEN JoinBr(Displays(dayMeals, items)) ELSE "-"

\* dateWiseData of the monthly invoice
MonthRows(list, items, year, month, daysInMonth) ==
    [day \in 1..daysInMonth |->
        LET dateStr == IsoDate(year, month + 1, day)
        IN  [date |-> dateStr, day |-> day,
             breakfast |-> MonthCell(list, items, dateStr, "breakfast"),
             lunch |-> MonthCell(list, items, dateStr, "lunch"),
             dinner |-> MonthCell(list, items, dateStr, "dinner")]]

\* relevantAdvances.forEach(p => totalAdvance += parseFloat(p.amount))
RECURSIVE AddAmounts(_, _)
AddAmounts(total, list) ==
    IF list = <<>> THEN total
    ELSE AddAmounts(JsAdd(total, parseFloat(Head(list).amount)), Tail(list))

\* extrasTotal with the breakfast total left out.
ExtrasTotal_noBreakfast(breakfastTotal, lunchTotal, dinnerTotal) ==
    JsAdd(lunchTotal, dinnerTotal)

\* const extrasTotal = breakfastTotal + lunchTotal + dinnerTotal
ExtrasTotal(breakfastTotal, lunchTotal, dinnerTotal) ==
    JsAdd(JsAdd(breakfastTotal, lunchTotal), dinnerTotal)

\* The subscription charge with the flat monthly fee treated as a daily rate.
MonthlySubscriptionTotal_perDay(customer, daysInMonth) ==
    JsMul(parseFloat(FieldNum(customer, "dailyAmount")), daysInMonth)

\* The subscription charge of a monthly invoice.
MonthlySubscriptionTotal(customer, daysInMonth) ==
    IF FieldStr(customer, "subscriptionType") = "monthly"
    THEN parseFloat(FieldNum(customer, "dailyAmount"))
    ELSE JsMul(parseFloat(FieldNum(customer, "dailyAmount")), daysInMonth)

\* The tail of generateInvoiceData, from the subscription charge to the
\* returned object.  In version 2 no advances are fetched or deducted and
\* the summary has no totalAdvance.
MonthlyResult(version, customer, list, items, advR, year, month) ==
    LET daysInMonth == DaysInMonth(year, month)
        breakfastTotal == MealTotal(list, year, month, "breakfast", daysInMonth)
        lunchTotal == MealTotal(list, year, month, "lunch", daysInMonth)
        dinnerTotal == MealTotal(list, year, month, "dinner", daysInMonth)
        subscriptionTotal == MonthlySubscriptionTotal(customer, daysInMonth)
        extrasTotal == ExtrasTotal(breakfastTotal, lunchTotal, dinnerTotal)
        relevantAdvances == SelectSeq(AsList(advR), LAMBDA p : p.month = month + 1)
        totalAdvance == AddAmounts(0, relevantAdvances)
        grandTotal == IF version = 1
                      THEN JsSub(JsAdd(subscriptionTotal, extrasTotal), totalAdvance)
                      ELSE JsAdd(subscriptionTotal, extrasTotal)
    IN  JObj([customer |-> customer, month |-> month, year |-> year,
              periodType |-> "monthly", monthName |-> MonthName(month),
              dateWiseData |-> MonthRows(list, items, year, month, daysInMonth),
              summary |-> [daysInMonth |-> daysInMonth,
                           dailyAmount |-> FieldNum(customer, "dailyAmount"),
                           subscriptionTotal |-> subscriptionTotal,
                           breakfastTotal |-> breakfastTotal,
                           lunchTotal |-> lunchTotal,
                           dinnerTotal |-> dinnerTotal,
                           extrasTotal |-> extrasTotal,
                           totalAdvance |-> IF version = 1 THEN totalAdvance ELSE Undefined,
                           grandTotal |-> grandTotal]])

\* generateInvoiceData(customerId, year, month), month counted from 0.
\* net gives the fate of each of its fetches, tz the browser's time zone.
generateInvoiceData(version, net, tz, S, customerId, year, month) ==
    LET customer == getCustomer(version, net.customer, S, customerId)
        extrasR == getExtrasByCustomerAndMonth(version, net.extras, S, tz,
                                               customerId, year, month)
        menuR == getMenuItems(version, net.menu, S)
        advR == IF version = 1
                THEN getAdvancePayments(version, net.advance, S, customerId, year)
                ELSE JList(<<>>)
    IN  IF customer.k = "throw" THEN Thrown
        ELSE IF Falsy(customer) THEN JNull
        ELSE IF extrasR.k = "throw" \/ menuR.k = "throw" \/ advR.k = "throw" THEN Thrown
        ELSE MonthlyResult(version, customer, AsList(extrasR), AsList(menuR),
                           advR, year, month)

\* generateInvoiceData with a request that records the advance as settled.
InvoiceRequests_settlesAdvance(version, customerId, year) ==
    << Get("customer", "/customers/" \o customerId),
       Get("extras", "/extras"),
       Get("menu", "/menu"),
       [fetch |-> "advance", method |-> "POST", endpoint |-> "/advance",
        body |-> [customerId |-> customerId, amount |-> 0, month |-> 1, year |-> year]] >>

\* The requests generateInvoiceData issues: getCustomer,
\* getExtrasByCustomerAndMonth (through getDailyExtras), getMenuItems and,
\* in version 1, getAdvancePayments.
InvoiceRequests(version, customerId, year) ==
    << Get("customer", "/customers/" \o customerId),
       Get("extras", "/extras"),
       Get("menu", "/menu") >>
    \o (IF version = 1
        THEN << Get("advance", "/advance?customerId=" \o customerId
                               \o "&year=" \o ToString(year)) >>
        ELSE << >>)

\* The requests generateDailyInvoiceData issues.
DailyInvoiceRequests(customerId, date) ==
    << Get("customer", "/customers/" \o customerId),
       Get("extras", "/extras/date/" \o date),
       Get("menu", "/menu") >>

\* customerExtras.forEach(e => { if (e.mealType === meal) total += ... })
MealSum(list, meal) == AddPrices(0, SelectSeq(list, LAMBDA e : e.mealType = meal))

\* One cell of the daily table: join('<br>') || '-'
DayCell(list, items, meal) ==
    LET joined == JoinBr(Displays(SelectSeq(list, LAMBDA e : e.mealType = meal), items))
    IN  IF joined = "" THEN "-" ELSE joined

\* The daily subscription charge with monthly subscribers charged as well.
DailySubscriptionTotal_everyone(customer) ==
    parseFloat(FieldNum(customer, "dailyAmount"))

\* The subscription charge of a daily invoice.
DailySubscriptionTotal(customer) ==
    IF FieldStr(customer, "subscriptionType") = "monthly"
    THEN 0
    ELSE parseFloat(FieldNum(customer, "dailyAmount"))

\* The tail of generateDailyInvoiceData (the same in both versions).
DailyResult(customer, customerExtras, items, tz, date) ==
    LET breakfastTotal == MealSum(customerExtras, "breakfast")
        lunchTotal == MealSum(customerExtras, "lunch")
        dinnerTotal == MealSum(customerExtras, "dinner")
        subscriptionTotal == DailySubscriptionTotal(customer)
        extrasTotal == ExtrasTotal(breakfastTotal, lunchTotal, dinnerTotal)
        grandTotal == JsAdd(subscriptionTotal, extrasTotal)
        dateObj == NewDate(date)
    IN  JObj([customer |-> customer, date |-> date, periodType |-> "daily",
              monthName |-> MonthName(getMonth(dateObj, tz)),
              year |-> getFullYear(dateObj, tz),
              day |-> getDate(dateObj, tz),
              dateWiseData |->
                  << [date |-> date, day |-> getDate(dateObj, tz),
                      breakfast |-> DayCell(customerExtras, items, "breakfast"),
                      lunch |-> DayCell(customerExtras, items, "lunch"),
                      dinner |-> DayCell(customerExtras, items, "dinner")] >>,
              summary |-> [daysInMonth |-> 1,
                           dailyAmount |-> FieldNum(customer, "dailyAmount"),
                           subscriptionTotal |-> subscriptionTotal,
                           breakfastTotal |-> breakfastTotal,
                           lunchTotal |-> lunchTotal,
                           dinnerTotal |-> dinnerTotal,
                           extrasTotal |-> extrasTotal,
                           totalAdvance |-> Undefined,
                           grandTotal |-> grandTotal]])

\* generateDailyInvoiceData(customerId, date)
generateDailyInvoiceData(version, net, tz, S, customerId, date) ==
    LET customer == getCustomer(version, net.customer, S, customerId)
        extrasR == getExtrasByDate(version, net.extras, S, date)
        menuR == getMenuItems(version, net.menu, S)
    IN  IF customer.k = "throw" THEN Thrown
        ELSE IF Falsy(customer) THEN JNull
        ELSE IF extrasR.k = "throw" \/ menuR.k = "throw" THEN Thrown
        ELSE DailyResult(customer,
                         SelectSeq(AsList(extrasR), LAMBDA e : e.customerId = customerId),
                         AsList(menuR), tz, date)

-----------------------------------------------------------------------------
(* Extras: the daily-extras entry form                                     *)

\* parseFloat of the value of the number input ('' when empty or not a
\* number, else a decimal numeral).
ParseFloatText(str) ==
    IF str = "" THEN NaN
    ELSE IF SubSeq(str, 1, 1) = "-" THEN 0 - DigitsVal(SubSeq(str, 2, Len(str)))
    ELSE DigitsVal(str)

\* Extras.save without the check of the required fields.
save_noRequiredCheck(version, net, ex, form, id, now) ==
    LET price == ParseFloatText(form.price)
        notes == Trim(form.notes)
        extra == [customerId |-> form.customerId, date |-> form.date,
                  mealType |-> form.mealType, menuItemId |-> form.menuItemId,
                  price |-> price, notes |-> notes]
    IN  IF JsLess(price, 0)
        THEN [extras |-> ex, posted |-> FALSE, extra |-> extra,
              toasts |-> <<"Price cannot be negative">>]
        ELSE [extras |-> addDailyExtra(version, net, ex, extra, id, now).extras,
              posted |-> TRUE, extra |-> extra,
              toasts |-> <<"extra saved!", "Error saving entry">>]

\* Extras.save clearing the entries of the other meals of the date.
save_otherMealsCleared(version, net, ex, form, id, now) ==
    LET price == ParseFloatText(form.price)
        notes == Trim(form.notes)
        extra == [customerId |-> form.customerId, date |-> form.date,
                  mealType |-> form.mealType, menuItemId |-> form.menuItemId,
                  price |-> price, notes |-> notes]
        OfOtherMeal(e) == /\ e.customerId = extra.customerId /\ e.date = extra.date
                          /\ e.mealType # extra.mealType
    IN  IF form.customerId = "" \/ form.date = "" \/ form.mealType = ""
           \/ form.menuItemId = ""
        THEN [extras |-> ex, posted |-> FALSE, extra |-> extra,
              toasts |-> <<"Please fill in all required fields">>]
        ELSE IF JsLess(price, 0)
        THEN [extras |-> ex, posted |-> FALSE, extra |-> extra,
              toasts |-> <<"Price cannot be negative">>]
        ELSE [extras |-> SelectSeq(addDailyExtra(version, net, ex, extra, id, now).extras,
                                   LAMBDA e : ~OfOtherMeal(e)),
              posted |-> TRUE, extra |-> extra,
              toasts |-> <<"extra saved!", "Error saving entry">>]

\* Extras.save(event).  form holds the values of the form controls: the
\* selected customer ('' when none), the date input ('' or YYYY-MM-DD), the
\* checked meal radio ('' when none is checked), the item select, the price
\* input and the notes input.  The POST is issued without being awaited, the
\* success toast follows, and loadEntriesForDate() then throws inside the
\* try block (renderEntries uses the promise of getExtrasByDate as an
\* array), which the catch turns into the error toast.
save(version, net, ex, form, id, now) ==
    LET price == ParseFloatText(form.price)
        notes == Trim(form.notes)
        extra == [customerId |-> form.customerId, date |-> form.date,
                  mealType |-> form.mealType, menuItemId |-> form.menuItemId,
                  price |-> price, notes |-> notes]
    IN  IF form.customerId = "" \/ form.date = "" \/ form.mealType = ""
           \/ form.menuItemId = ""
        THEN [extras |-> ex, posted |-> FALSE, extra |-> extra,
              toasts |-> <<"Please fill in all required fields">>]
        ELSE IF JsLess(price, 0)
        THEN [extras |-> ex, posted |-> FALSE, extra |-> extra,
              toasts |-> <<"Price cannot be negative">>]
        ELSE [extras |-> addDailyExtra(version, net, ex, extra, id, now).extras,
              posted |-> TRUE, extra |-> extra,
              toasts |-> <<"extra saved!", "Error saving entry">>]

\* Extras.deleteEntry passing no meal slot on to the data layer.
deleteEntry_wholeDay(version, net, ex, customerId, date, mealType, confirmed) ==
    IF confirmed
    THEN [extras |-> deleteExtraByDetails(version, net, ex, customerId, date, "null").extras,
          posted |-> TRUE, toasts |-> <<"Entry deleted">>]
    ELSE [extras |-> ex, posted |-> FALSE, toasts |-> <<>>]

\* Extras.deleteEntry(customerId, date, mealType): the callback handed to
\* App.confirm runs when the administrator confirms.
deleteEntry(version, net, ex, customerId, date, mealType, confirmed) ==
    IF confirmed
    THEN [extras |-> deleteExtraByDetails(version, net, ex, customerId, date, mealType).extras,
          posted |-> TRUE, toasts |-> <<"Entry deleted">>]
    ELSE [extras |-> ex, posted |-> FALSE, toasts |-> <<>>]

-----------------------------------------------------------------------------
(* Customers: the customer form                                            *)

\* Customers.save(event) with the values of the form and this.editId (written
\* "" when it is null, a customer being added): the toast shown and the
\* requests sent.
saveCustomer(form, editId, today) ==
    LET data == [name |-> Trim(form.name),
                 mobile |-> Trim(form.mobile),
                 address |-> Trim(form.address),
                 subscriptionType |-> form.subscriptionType,
                 dailyAmount |-> ParseFloatText(form.amount),
                 startDate |-> form.startDate,
                 status |-> form.status]
    IN  IF data.name = "" \/ data.mobile = ""
        THEN [toast |-> "Please fill in all required fields", requests |-> <<>>]
        ELSE IF Len(data.mobile) # 10
        THEN [toast |-> "Please enter a valid 10-digit mobile number", requests |-> <<>>]
        ELSE IF editId # ""
        THEN [toast |-> "Customer updated successfully!",
              requests |-> <<updateCustomer(editId, data)>>]
        ELSE [toast |-> "Customer added successfully!",
              requests |-> <<addCustomer(data, today)>>]

-----------------------------------------------------------------------------
(* Auth: the login of the administrator                                    *)

\* CONFIG
SESSION_TIMEOUT == 15 * 60 * 1000
MAX_LOGIN_ATTEMPTS == 5
LOCKOUT_DURATION == 15 * 60 * 1000

UpperCase == "ABCDEFGHIJKLMNOPQRSTUVWXYZ"
LowerCase == "abcdefghijklmnopqrstuvwxyz"
UpperChars == {SubSeq(UpperCase, i, i) : i \in 1..Len(UpperCase)}

RECURSIVE IndexFrom(_, _, _)
\* String.prototype.indexOf(c, i - 1) + 1 for one character c: 0 when absent
IndexFrom(s, c, i) ==
    IF i > Len(s) THEN 0
    ELSE IF SubSeq(s, i, i) = c THEN i
    ELSE IndexFrom(s, c, i + 1)

RECURSIVE toLowerCase(_)
\* String.prototype.toLowerCase
toLowerCase(s) ==
    IF s = "" THEN ""
    ELSE LET c == SubSeq(s, 1, 1)
         IN  (IF c \notin UpperChars THEN c
              ELSE LET i == IndexFrom(UpperCase, c, 1) IN SubSeq(LowerCase, i, i))
             \o toLowerCase(SubSeq(s, 2, Len(s)))

RECURSIVE Split(_, _)
\* String.prototype.split(sep) for a separator of one character
Split(s, sep) ==
    LET i == IndexFrom(s, sep, 1)
    IN  IF i = 0 THEN <<s>>
        ELSE <<SubSeq(s, 1, i - 1)>> \o Split(SubSeq(s, i + 1, Len(s)), sep)

\* crypto.subtle.digest('SHA-256', data) in hexadecimal: a function of the
\* data that takes different data to different digests.
Digest(data) == "sha256(" \o data \o ")"

\* hashPassword(password), the salt being the one generateSalt drew
hashPassword(salt, password) == salt \o ":" \o Digest(salt \o password)

\* verifyPassword(password, storedHash)
verifyPassword(password, storedHash) ==
    LET parts == Split(storedHash, ":")
    IN  Len(parts) >= 2 /\ parts[2] = Digest(parts[1] \o password)

DefaultEmail == "admin@bcfood.com"
DefaultPassword == "Admin@123"
DefaultSalt == "00ff5a17"

\* createDefaultAdmin: the credentials stored under bc_admin_credentials
DefaultAdmin ==
    [email |-> DefaultEmail, password |-> hashPassword(DefaultSalt, DefaultPassword)]

\* getLoginAttempts()
getLoginAttempts(ls) ==
    IF ls.attempts.k = "obj" THEN ls.attempts.o
    ELSE [count |-> 0, lastAttempt |-> 0, lockedUntil |-> 0]

\* recordFailedAttempt()
recordFailedAttempt(ls, now) ==
    LET attempts == getLoginAttempts(ls)
        counted == [attempts EXCEPT !.count = @ + 1, !.lastAttempt = now]
    IN  [ls EXCEPT !.attempts = JObj(
            IF counted.count >= MAX_LOGIN_ATTEMPTS
            THEN [counted EXCEPT !.lockedUntil = now + LOCKOUT_DURATION]
            ELSE counted)]

\* clearLoginAttempts()
clearLoginAttempts(ls) == [ls EXCEPT !.attempts = JNull]

\* Math.ceil(a / b) for a >= 0, b > 0
Ceil(a, b) == (a + b - 1) \div b

\* checkLockout(), with the localStorage it leaves
checkLockout(ls, now) ==
    LET attempts == getLoginAttempts(ls)
    IN  IF attempts.lockedUntil # 0 /\ now < attempts.lockedUntil
        THEN [ls |-> ls, locked |-> TRUE,
              remainingMinutes |-> Ceil(attempts.lockedUntil - now, 60000)]
        ELSE [ls |-> IF attempts.lockedUntil # 0 /\ now >= attempts.lockedUntil
                     THEN clearLoginAttempts(ls) ELSE ls,
              locked |-> FALSE, remainingMinutes |-> 0]

\* createSession(email); the token is random and left out
createSession(ls, email, now) ==
    [ls EXCEPT !.session = JObj([email |-> email, lastActivity |-> now])]

\* clearSession()
clearSession(ls) == [ls EXCEPT !.session = JNull]

\* isLoggedIn(), with the localStorage it leaves
isLoggedIn(ls, now) ==
    IF ls.session.k # "obj" THEN [ls |-> ls, out |-> FALSE]
    ELSE IF now - ls.session.o.lastActivity > SESSION_TIMEOUT
    THEN [ls |-> clearSession(ls), out |-> FALSE]
    ELSE [ls |-> ls, out |-> TRUE]

\* updateLastActivity()
updateLastActivity(ls, now) ==
    IF ls.session.k = "obj"
    THEN [ls EXCEPT !.session = JObj([ls.session.o EXCEPT !.lastActivity = now])]
    ELSE ls

\* the period of the setInterval of startActivityTimer
CheckPeriod == 60 * 1000

\* login(email, password) up to its await: the result when it returns at
\* once, or the call left waiting for the digest of verifyPassword.
loginCall(ls, now, email, password) ==
    LET lockoutStatus == checkLockout(ls, now)
        admin == lockoutStatus.ls.admin
    IN  IF lockoutStatus.locked
        THEN [ls |-> lockoutStatus.ls, done |-> TRUE,
              out |-> [success |-> FALSE,
                       message |-> "Too many failed attempts. Try again in "
                                   \o ToString(lockoutStatus.remainingMinutes) \o " minutes."]]
        ELSE IF admin.k # "obj"
        THEN [ls |-> lockoutStatus.ls, done |-> TRUE,
              out |-> [success |-> FALSE,
                       message |-> "System error. Please contact support."]]
        ELSE IF toLowerCase(email) # toLowerCase(admin.o.email)
        THEN [ls |-> recordFailedAttempt(lockoutStatus.ls, now), done |-> TRUE,
              out |-> [success |-> FALSE, message |-> "Invalid email or password."]]
        ELSE [ls |-> lockoutStatus.ls, done |-> FALSE,
              call |-> [email |-> email, password |-> password,
                        storedHash |-> admin.o.password]]

\* login(email, password) after the await of verifyPassword
loginResume(ls, now, call) ==
    IF ~verifyPassword(call.password, call.storedHash)
    THEN LET failed == recordFailedAttempt(ls, now)
             remaining == MAX_LOGIN_ATTEMPTS - getLoginAttempts(failed).count
         IN  [ls |-> failed,
              out |-> [success |-> FALSE,
                       message |-> IF remaining > 0
                                   THEN "Invalid email or password. "
                                        \o ToString(remaining) \o " attempts remaining."
                                   ELSE "Too many failed attempts. Please try again in 15 minutes."]]
    ELSE [ls |-> createSession(clearLoginAttempts(ls), call.email, now),
          out |-> [success |-> TRUE, message |-> "Welcome back!"]]

\* The browser once Auth.init has run: the default administrator, no session,
\* no attempts, no call of login under way.
\* (timer is the time the interval of startActivityTimer fires next, Null
\* when no interval is set; log is the list under bc_credential_log; changes
\* are the calls of changeEmail and changePassword awaiting a digest.)
AuthInit ==
    [now |-> 0,
     ls |-> [admin |-> JObj(DefaultAdmin), session |-> JNull, attempts |-> JNull,
             log |-> <<>>],
     calls |-> <<>>,
     timer |-> Null,
     changes |-> <<>>]

-----------------------------------------------------------------------------
(* Search: the debounce of the search box                                  *)

\* CONFIG
DEBOUNCE_DELAY == 300
MIN_SEARCH_LENGTH == 2

\* clearTimeout(id) on the timers the browser holds
clearTimeout(timers, id) == {t \in timers : t.id # id}

\* handleSearchInput(query) without the clearTimeout of the previous timer.
handleSearchInput_noClear(s, query) ==
    LET n == Len(s.inputs) + 1
        heard == [s EXCEPT !.inputs = Append(@, [query |-> query, at |-> s.now])]
    IN  IF Len(query) < MIN_SEARCH_LENGTH
        THEN [heard EXCEPT !.visible = FALSE]
        ELSE [heard EXCEPT
                !.debounceTimer = s.nextTimer,
                !.nextTimer = @ + 1,
                !.timers = s.timers \cup {[id |-> s.nextTimer, query |-> query, input |-> n,
                                           due |-> s.now + DEBOUNCE_DELAY]}]

\* handleSearchInput(query); inputs is the history of the calls
handleSearchInput(s, query) ==
    LET n == Len(s.inputs) + 1
        cleared == IF s.debounceTimer # Null
                   THEN clearTimeout(s.timers, s.debounceTimer) ELSE s.timers
        heard == [s EXCEPT !.inputs = Append(@, [query |-> query, at |-> s.now]),
                           !.timers = cleared]
    IN  IF Len(query) < MIN_SEARCH_LENGTH
        THEN [heard EXCEPT !.visible = FALSE]
        ELSE [heard EXCEPT
                !.debounceTimer = s.nextTimer,
                !.nextTimer = @ + 1,
                !.timers = cleared \cup {[id |-> s.nextTimer, query |-> query, input |-> n,
                                          due |-> s.now + DEBOUNCE_DELAY]}]

\* The callback of the timer t: performSearch(query) shows its results; done
\* is the history of the calls, each with the number of inputs heard by then.
timerCallback(s, t) ==
    [s EXCEPT !.timers = @ \ {t},
              !.visible = TRUE,
              !.done = Append(@, [query |-> t.query, input |-> t.input, at |-> s.now,
                                  heard |-> Len(s.inputs)])]

\* The search box when the page has loaded: no timer, nothing typed.
SearchInit ==
    [now |-> 0, debounceTimer |-> Null, nextTimer |-> 1, timers |-> {},
     visible |-> FALSE, inputs |-> <<>>, done |-> <<>>]

-----------------------------------------------------------------------------
(* Inputs explored                                                         *)

Versions == {1, 2}
NetStates == {"ok", "down"}

\* Minutes east of UTC of the browser: New York, India.
TimeZones == {-300, 330}

CustomerIds == {"c1", "c2"}
UnknownCustomer == "c9"
Dates == {"2026-04-05", "2026-05-01"}
Months == {[year |-> 2026, month |-> 3], [year |-> 2026, month |-> 4]}

\* Item, price text and notes as typed: a plain entry, an entry with a
\* note, an unknown item with an empty price and a blank note, a negative
\* price.
Fillings ==
    { [menuItemId |-> "m2", price |-> "40", notes |-> ""],
      [menuItemId |-> "m1", price |-> "80", notes |-> " extra spicy "],
      [menuItemId |-> "m9", price |-> "", notes |-> " "],
      [menuItemId |-> "m1", price |-> "-5", notes |-> ""] }

Form(c, d, m, f) ==
    [customerId |-> c, date |-> d, mealType |-> m, menuItemId |-> f.menuItemId,
     price |-> f.price, notes |-> f.notes]

CompleteForms ==
    { Form(c, d, m, f) : c \in CustomerIds, d \in Dates, m \in MealTypes, f \in Fillings }

\* A form with one required control left empty.
IncompleteForms ==
    LET f == Form("c1", "2026-04-05", "lunch",
                  [menuItemId |-> "m1", price |-> "80", notes |-> ""])
    IN  { [f EXCEPT ![x] = ""] : x \in {"customerId", "date", "mealType", "menuItemId"} }

Forms == CompleteForms \cup IncompleteForms

AdvanceInputs ==
    { [customerId |-> "c1", amount |-> 500, month |-> mo, year |-> 2026] : mo \in {4, 5} }

AllNet(st) == [customer |-> st, extras |-> st, menu |-> st, advance |-> st]

\* The fate of the fetches of one invoice computation: all answered, none
\* answered, and for the monthly invoice only its last fetch (the advances)
\* unanswered.
DailyNets == {AllNet("ok"), AllNet("down")}
MonthlyNets == DailyNets \cup {[AllNet("ok") EXCEPT !.advance = "down"]}

\* The extras table after the forms of a sequence have been saved, one
\* after the other, into an empty table.
RECURSIVE TableAfter(_)
TableAfter(forms) ==
    IF forms = <<>> THEN <<>>
    ELSE LET n == Len(forms)
             ex == TableAfter(SubSeq(forms, 1, n - 1))
         IN  save(1, "ok", ex, forms[n], Len(ex) + 1, n).extras

\* The forms saved before the admission system is observed: a day with two
\* meals of one customer entered, and an entry of another customer.
SeedForms ==
    << Form("c1", "2026-04-05", "breakfast", [menuItemId |-> "m2", price |-> "40", notes |-> ""]),
       Form("c1", "2026-04-05", "lunch", [menuItemId |-> "m1", price |-> "80", notes |-> ""]),
       Form("c2", "2026-04-05", "lunch", [menuItemId |-> "m1", price |-> "80", notes |-> ""]) >>

\* The forms the tables of the invoice specification are built from: the
\* table of every subset of them, saved in this order.
InvoiceForms ==
    << Form("c1", "2026-04-05", "lunch", [menuItemId |-> "m1", price |-> "80", notes |-> ""]),
       Form("c1", "2026-04-05", "breakfast", [menuItemId |-> "m2", price |-> "40", notes |-> " extra spicy "]),
       Form("c1", "2026-04-05", "dinner", [menuItemId |-> "m9", price |-> "", notes |-> " "]),
       Form("c1", "2026-05-01", "lunch", [menuItemId |-> "m1", price |-> "80", notes |-> ""]),
       Form("c2", "2026-04-05", "lunch", [menuItemId |-> "m2", price |-> "45", notes |-> ""]) >>

InvoiceTables ==
    { TableAfter(SelectSeq(InvoiceForms, LAMBDA f : f \in fs)) :
        fs \in SUBSET {InvoiceForms[i] : i \in 1..Len(InvoiceForms)} }

Idle == [op |-> "idle"]

\* Nothing under way at the gateway.
NoPending ==
    [atomic |-> TRUE, writes |-> <<>>, sent |-> {}, overlapped |-> FALSE,
     invoice |-> JNull]

\* The slot and content of an extras write or entry.
Content(e) ==
    [customerId |-> e.customerId, date |-> e.date, mealType |-> e.mealType,
     menuItemId |-> e.menuItemId, price |-> e.price, notes |-> e.notes]

SeqToSet(q) == {q[i] : i \in 1..Len(q)}

-----------------------------------------------------------------------------
(* The system                                                              *)

TypeInit ==
    /\ customers = SeedCustomers
    /\ menuItems = SeedMenuItems
    /\ advances = <<>>
    /\ ret = Idle
    /\ auth = AuthInit
    /\ lockedAt = Null
    /\ search = SearchInit
    /\ pending = NoPending

\* The seed table, its entries written at the times -2, -1 and 0.
SeedTable ==
    LET ex == TableAfter(SeedForms)
    IN  [i \in 1..Len(ex) |->
            [ex[i] EXCEPT !.createdAt = @ - Len(ex), !.updatedAt = @ - Len(ex)]]

Init ==
    /\ TypeInit
    /\ extras \in {<<>>, SeedTable}
    /\ nextId = Len(extras) + 1
    /\ clock = 0
    /\ admitted = {Content(e) : e \in SeqToSet(extras)}

\* The administrator submits the extras form: Extras.save.
Save ==
    /\ ret = Idle
    /\ \E form \in Forms, version \in Versions, net \in NetStates :
         LET r == save(version, net, extras, form, nextId, clock + 1)
             delivered == r.posted /\ net = "ok"
         IN  /\ delivered => clock < MaxClock
             /\ extras' = r.extras
             /\ clock' = IF delivered THEN clock + 1 ELSE clock
             /\ nextId' = IF Len(r.extras) > Len(extras) THEN nextId + 1 ELSE nextId
             /\ ret' = [op |-> "save", form |-> form, net |-> net,
                        extra |-> r.extra, posted |-> r.posted, delivered |-> delivered,
                        toasts |-> r.toasts,
                        existed |-> (\E e \in SeqToSet(extras) : SameSlot(e, r.extra))]
             /\ admitted' = IF delivered
                             THEN {a \in admitted : ~SameSlot(a, r.extra)}
                                  \cup {Content(JsonExtra(r.extra))}
                             ELSE admitted
    /\ UNCHANGED <<customers, menuItems, advances, auth, lockedAt, pending, search>>

\* The administrator deletes one meal's entry: Extras.deleteEntry.
DeleteEntry ==
    /\ ret = Idle
    /\ \E c \in CustomerIds, d \in Dates, m \in MealTypes, confirmed \in BOOLEAN,
          version \in Versions, net \in NetStates :
         LET r == deleteEntry(version, net, extras, c, d, m, confirmed)
             delivered == r.posted /\ net = "ok"
         IN  /\ delivered => clock < MaxClock
             /\ extras' = r.extras
             /\ clock' = IF delivered THEN clock + 1 ELSE clock
             /\ ret' = [op |-> "deleteEntry", customerId |-> c, date |-> d, mealType |-> m,
                        net |-> net, posted |-> r.posted, delivered |-> delivered,
                        toasts |-> r.toasts]
             /\ admitted' = IF delivered
                             THEN {a \in admitted :
                                     ~(a.customerId = c /\ a.date = d /\ a.mealType = m)}
                             ELSE admitted
    /\ UNCHANGED <<customers, menuItems, advances, nextId, auth, lockedAt, pending, search>>

\* DB.deleteExtraByDetails(customerId, date) with the meal slot omitted.
DeleteByDetails ==
    /\ ret = Idle
    /\ \E c \in CustomerIds, d \in Dates, version \in Versions, net \in NetStates :
         LET r == deleteExtraByDetails(version, net, extras, c, d, "null")
         IN  /\ net = "ok" => clock < MaxClock
             /\ extras' = r.extras
             /\ clock' = IF net = "ok" THEN clock + 1 ELSE clock
             /\ ret' = [op |-> "deleteExtraByDetails", customerId |-> c, date |-> d,
                        mealType |-> "null", version |-> version, net |-> net,
                        posted |-> TRUE, delivered |-> (net = "ok"), out |-> r.out]
             /\ admitted' = IF net = "ok"
                             THEN {a \in admitted : ~(a.customerId = c /\ a.date = d)}
                             ELSE admitted
    /\ UNCHANGED <<customers, menuItems, advances, nextId, auth, lockedAt, pending, search>>

\* DB.addAdvancePayment(payment)
AddAdvance ==
    /\ ret = Idle
    /\ Len(advances) < MaxAdvances
    /\ \E p \in AdvanceInputs, net \in NetStates :
         LET r == addAdvancePayment(1, net, advances, p, nextId)
         IN  /\ advances' = r.advances
             /\ nextId' = IF net = "ok" THEN nextId + 1 ELSE nextId
             /\ ret' = [op |-> "addAdvancePayment", payment |-> p, net |-> net]
    /\ UNCHANGED <<customers, menuItems, extras, clock, admitted, auth, lockedAt, pending, search>>

\* The tables of the server after a sequence of requests.
Served(reqs, net) ==
    LET S == SrvAfter(Store, reqs, net)
    IN  /\ customers' = S.customers
        /\ menuItems' = S.menuItems
        /\ extras' = S.extras
        /\ advances' = S.advances

\* DB.generateInvoiceData(customerId, year, month)
GenerateInvoice ==
    /\ ret = Idle
    /\ \E c \in CustomerIds \cup {UnknownCustomer}, ym \in Months,
          version \in Versions, net \in MonthlyNets, tz \in TimeZones :
         /\ ret' = [op |-> "generateInvoiceData", customerId |-> c, year |-> ym.year,
                    month |-> ym.month, version |-> version, net |-> net, tz |-> tz,
                    out |-> generateInvoiceData(version, net, tz, Store, c, ym.year, ym.month)]
         /\ Served(InvoiceRequests(version, c, ym.year), net)
    /\ UNCHANGED <<nextId, clock, admitted, auth, lockedAt, pending, search>>

\* DB.generateDailyInvoiceData(customerId, date)
GenerateDailyInvoice ==
    /\ ret = Idle
    /\ \E c \in CustomerIds \cup {UnknownCustomer}, d \in Dates,
          version \in Versions, net \in DailyNets, tz \in TimeZones :
         /\ ret' = [op |-> "generateDailyInvoiceData", customerId |-> c, date |-> d,
                    version |-> version, net |-> net, tz |-> tz,
                    out |-> generateDailyInvoiceData(version, net, tz, Store, c, d)]
         /\ Served(DailyInvoiceRequests(c, d), net)
    /\ UNCHANGED <<nextId, clock, admitted, auth, lockedAt, pending, search>>

\* The operation has run to completion; the next one can start.
Return ==
    /\ ret # Idle
    /\ ret' = Idle
    /\ UNCHANGED <<customers, menuItems, extras, advances, nextId, clock, admitted, auth, lockedAt, pending, search>>

\* The extras admission system: entries are saved and removed.
Next ==
    \/ Save
    \/ DeleteEntry
    \/ DeleteByDetails
    \/ Return

Spec == Init /\ [][Next]_vars

\* The invoice aggregator over a family of extras tables: advances are
\* recorded and invoices are generated.
InitInvoice ==
    /\ TypeInit
    /\ extras \in InvoiceTables
    /\ nextId = Len(extras) + 1
    /\ clock = Len(extras)
    /\ admitted = {Content(e) : e \in SeqToSet(extras)}

NextInvoice ==
    \/ AddAdvance
    \/ GenerateInvoice
    \/ GenerateDailyInvoice
    \/ Return

SpecInvoice == InitInvoice /\ [][NextInvoice]_vars

-----------------------------------------------------------------------------
(* Properties of extras admission and removal (checked under Spec)         *)

EntriesOf(ex, x) == SelectSeq(ex, LAMBDA e : SameSlot(e, x))

\* C1: single-slot invariant.  The store holds at most one entry per
\* (customer, date, meal slot), and for every slot that was admitted and not
\* removed since it holds exactly one entry, whose item, price and note are
\* those of the last write admitted for that slot.
C1_SingleSlot ==
    /\ \A i, j \in 1..Len(extras) : SameSlot(extras[i], extras[j]) => i = j
    /\ \A a \in admitted :
         /\ Len(EntriesOf(extras, a)) = 1
         /\ Content(EntriesOf(extras, a)[1]) = a

\* A slot that already held an entry has just been written again with
\* another item and price, next to entries of other slots.
C1_Witness ==
    /\ ret.op = "save" /\ ret.delivered /\ ret.existed
    /\ ret.extra.menuItemId = "m2" /\ ret.extra.price = 40
    /\ Len(extras) = 3
    /\ \E i \in 1..Len(extras) :
         /\ SameSlot(extras[i], ret.extra)
         /\ extras[i].mealType = "lunch" /\ extras[i].price = 40

\* C2: a write to a slot that holds an entry keeps the entry's id and
\* createdAt and changes nothing but its item, price, note and updatedAt;
\* a write to a free slot creates one entry whose id differs from the id of
\* every entry already stored.
C2_Step ==
    (ret = Idle /\ ret'.op = "save" /\ ret'.delivered) =>
        LET old == EntriesOf(extras, ret'.extra)
            new == EntriesOf(extras', ret'.extra)
        IN  /\ Len(new) = 1
            /\ IF old # <<>>
               THEN /\ DOMAIN new[1] = DOMAIN old[1]
                    /\ \A f \in DOMAIN old[1] \ {"menuItemId", "price", "notes", "updatedAt"} :
                         new[1][f] = old[1][f]
                    /\ new[1].updatedAt = clock' /\ new[1].updatedAt > old[1].updatedAt
                    /\ Len(extras') = Len(extras)
               ELSE /\ \A e \in SeqToSet(extras) : e.id # new[1].id
                    /\ new[1].createdAt = clock' /\ new[1].updatedAt = clock'
                    /\ Len(extras') = Len(extras) + 1

C2_IdentityPreserved == [][C2_Step]_vars

\* An entry created earlier has been overwritten: same id and creation
\* time, later update time, new price.
C2_Witness ==
    /\ ret.op = "save" /\ ret.delivered /\ ret.existed
    /\ \E i \in 1..Len(extras) :
         /\ SameSlot(extras[i], ret.extra)
         /\ extras[i].id = 2 /\ extras[i].createdAt = -1
         /\ extras[i].updatedAt = 1
         /\ extras[i].price = 40 /\ extras[i].menuItemId = "m2"

WithoutUpdatedAt(ex) ==
    [i \in 1..Len(ex) |-> [f \in DOMAIN ex[i] \ {"updatedAt"} |-> ex[i][f]]]

\* C3: idempotent re-admission.  From every store the system comes to rest
\* in, submitting the same form twice leaves the same entries, update times
\* apart, as submitting it once.
C3_Idempotent ==
    ret = Idle => \A form \in Forms, version \in Versions, net \in NetStates :
        LET once == save(version, net, extras, form, nextId, clock + 1).extras
            id2 == nextId + (Len(once) - Len(extras))
            twice == save(version, net, once, form, id2, clock + 2).extras
        IN  WithoutUpdatedAt(twice) = WithoutUpdatedAt(once)

\* After a served write the system is at rest, and a form for a free slot
\* would create an entry on its first submission and touch only the update
\* time of that entry on its second.
C3_Witness ==
    /\ ret = Idle /\ clock = 1 /\ extras # <<>>
    /\ \E form \in CompleteForms :
         LET once == save(1, "ok", extras, form, nextId, clock + 1).extras
             twice == save(1, "ok", once, form, nextId + 1, clock + 2).extras
         IN  /\ Len(once) = Len(extras) + 1
             /\ twice # once
             /\ WithoutUpdatedAt(twice) = WithoutUpdatedAt(once)

\* C4 (as stated): a write with a price below zero is refused before the
\* request is sent, and every stored entry has a price that is a number
\* greater than or equal to zero, whatever was typed into the price field.
C4_PricesNonNegative ==
    /\ (ret.op = "save" /\ JsLess(ret.extra.price, 0)) =>
           (~ret.posted /\ ret.toasts = <<"Price cannot be negative">>)
    /\ \A i \in 1..Len(extras) :
           IsNumber(extras[i].price) /\ extras[i].price >= 0

Digits == {"0", "1", "2", "3", "4", "5", "6", "7", "8", "9"}

\* YYYY-MM-DD naming a day of the calendar
WellFormedDate(str) ==
    /\ Len(str) = 10
    /\ \A i \in {1, 2, 3, 4, 6, 7, 9, 10} : SubSeq(str, i, i) \in Digits
    /\ SubSeq(str, 5, 5) = "-" /\ SubSeq(str, 8, 8) = "-"
    /\ LET t == NewDate(str)
       IN  t.m \in 1..12 /\ t.d \in 1..DaysInMonth(t.y, t.m - 1)

C5_Stored ==
    \A i \in 1..Len(extras) :
        extras[i].mealType \in MealTypes /\ WellFormedDate(extras[i].date)

C5_Step ==
    (ret = Idle /\ ret'.op = "save"
       /\ (~WellFormedDate(ret'.form.date) \/ ret'.form.mealType \notin MealTypes)) =>
        /\ ~ret'.posted
        /\ ret'.toasts = <<"Please fill in all required fields">>
        /\ UNCHANGED <<customers, menuItems, extras, advances, nextId, clock>>

C6_Matches(e, r) ==
    /\ e.customerId = r.customerId /\ e.date = r.date
    /\ (r.mealType = "null" \/ e.mealType = r.mealType)

C6_Step ==
    (ret = Idle /\ ret'.op \in {"deleteEntry", "deleteExtraByDetails"} /\ ret'.delivered) =>
        LET r == ret'
            kept == {i \in 1..Len(extras) : ~C6_Matches(extras[i], r)}
        IN  /\ \A i \in 1..Len(extras') : ~C6_Matches(extras'[i], r)
            /\ Len(extras') = Cardinality(kept)
            /\ \A i \in kept : \E j \in 1..Len(extras') : extras'[j] = extras[i]
            /\ (kept = 1..Len(extras)) => extras' = extras
            /\ r.op = "deleteExtraByDetails" => r.out # Thrown
            /\ UNCHANGED <<customers, menuItems, advances, nextId>>

-----------------------------------------------------------------------------
(* Properties of the invoices (checked under SpecInvoice)                  *)

IsInvoice(r, op) == r.op = op /\ r.out.k = "obj"

AllUp(net) == \A f \in DOMAIN net : net[f] = "ok"

\* C7: in every invoice, monthly or daily, extrasTotal is the sum of
\* breakfastTotal, lunchTotal and dinnerTotal (NaN taken as the absorbing
\* value of the addition).
C7_ExtrasTotal ==
    (IsInvoice(ret, "generateInvoiceData") \/ IsInvoice(ret, "generateDailyInvoiceData")) =>
        LET s == ret.out.o.summary
        IN  s.extrasTotal = JsAdd(JsAdd(s.breakfastTotal, s.lunchTotal), s.dinnerTotal)

\* A monthly invoice with a breakfast of 40 and a lunch of 80.
C7_Witness ==
    /\ IsInvoice(ret, "generateInvoiceData")
    /\ LET s == ret.out.o.summary
       IN  s.breakfastTotal = 40 /\ s.lunchTotal = 80 /\ s.dinnerTotal = 0
           /\ s.extrasTotal = 120

\* C8 (as stated): every monthly invoice reports totalAdvance in its summary
\* and has grandTotal = subscriptionTotal + extrasTotal - totalAdvance.
C8_GrandTotal ==
    IsInvoice(ret, "generateInvoiceData") =>
        LET s == ret.out.o.summary
        IN  /\ s.totalAdvance # Undefined
            /\ s.grandTotal = JsSub(JsAdd(s.subscriptionTotal, s.extrasTotal), s.totalAdvance)

\* C9: in a monthly invoice the subscription total is the customer's
\* dailyAmount for a monthly subscriber and dailyAmount times the number of
\* days of the month for a daily subscriber; the customer is the stored one
\* whenever the gateway answered.
C9_SubscriptionTotal ==
    (IsInvoice(ret, "generateInvoiceData") /\ ret.out.o.customer.k = "obj") =>
        LET c == ret.out.o.customer.o
            s == ret.out.o.summary
        IN  /\ ret.net.customer = "ok" =>
                  \E i \in 1..Len(customers) : customers[i] = c /\ c.id = ret.customerId
            /\ s.daysInMonth = DaysInMonth(ret.year, ret.month)
            /\ c.subscriptionType = "monthly" => s.subscriptionTotal = c.dailyAmount
            /\ c.subscriptionType = "daily" =>
                  s.subscriptionTotal = c.dailyAmount * s.daysInMonth

\* The April invoice of the daily subscriber at 300 a day: 9000.
C9_Witness ==
    /\ IsInvoice(ret, "generateInvoiceData") /\ ret.out.o.customer.k = "obj"
    /\ ret.customerId = "c1" /\ ret.month = 3
    /\ ret.out.o.customer.o.subscriptionType = "daily"
    /\ ret.out.o.customer.o.dailyAmount = 300
    /\ ret.out.o.summary.daysInMonth = 30
    /\ ret.out.o.summary.subscriptionTotal = 9000

\* C10: in a daily invoice grandTotal = subscriptionTotal + extrasTotal,
\* the subscription total being 0 for a monthly subscriber and dailyAmount
\* for a daily one; the advances on record do not enter it: the invoice is
\* the one the same call returns with no advance recorded.
C10_DailyGrandTotal ==
    IsInvoice(ret, "generateDailyInvoiceData") =>
        LET s == ret.out.o.summary
            cust == ret.out.o.customer
        IN  /\ s.grandTotal = JsAdd(s.subscriptionTotal, s.extrasTotal)
            /\ cust.k = "obj" =>
                 /\ cust.o.subscriptionType = "monthly" => s.subscriptionTotal = 0
                 /\ cust.o.subscriptionType = "daily" => s.subscriptionTotal = cust.o.dailyAmount
            /\ generateDailyInvoiceData(ret.version, ret.net, ret.tz,
                                        [Store EXCEPT !.advances = <<>>],
                                        ret.customerId, ret.date) = ret.out

\* The daily invoice of the daily subscriber, who has an advance of 500 on
\* record for that month: 300 + 80 = 380.
C10_Witness ==
    /\ IsInvoice(ret, "generateDailyInvoiceData") /\ AllUp(ret.net)
    /\ ret.customerId = "c1" /\ ret.date = "2026-04-05"
    /\ \E i \in 1..Len(advances) :
         advances[i].customerId = "c1" /\ advances[i].month = 4 /\ advances[i].amount = 500
    /\ LET s == ret.out.o.summary
       IN  s.subscriptionTotal = 300 /\ s.extrasTotal = 80 /\ s.grandTotal = 380

\* C11 (as stated, for the first definition of DB, the one that reports
\* totalAdvance): in a monthly invoice totalAdvance is the sum of the
\* amounts of exactly the advance payments on record for that customer,
\* year and month.
C11_TotalAdvance ==
    (IsInvoice(ret, "generateInvoiceData") /\ ret.version = 1) =>
        ret.out.o.summary.totalAdvance =
            AddAmounts(0, SelectSeq(advances, LAMBDA p :
                /\ p.customerId = ret.customerId
                /\ p.year = ret.year
                /\ p.month = ret.month + 1))

\* The stored extras of a customer dated in a month (counted from 0), of
\* one meal slot.
ExtrasOfMonth(customerId, year, month, meal) ==
    SelectSeq(extras, LAMBDA e :
        /\ e.customerId = customerId /\ e.mealType = meal
        /\ NewDate(e.date).y = year /\ NewDate(e.date).m = month + 1)

\* C12 (as stated, with every fetch answered): in a monthly invoice each of
\* breakfastTotal, lunchTotal and dinnerTotal is the sum of the prices of
\* exactly the stored extras of that customer that are dated in that month
\* and belong to that slot.
C12_MealTotals ==
    (IsInvoice(ret, "generateInvoiceData") /\ AllUp(ret.net)) =>
        LET s == ret.out.o.summary
            Sum(meal) == AddPrices(0, ExtrasOfMonth(ret.customerId, ret.year, ret.month, meal))
        IN  /\ s.breakfastTotal = Sum("breakfast")
            /\ s.lunchTotal = Sum("lunch")
            /\ s.dinnerTotal = Sum("dinner")

\* The stored extras of a customer for a date and a meal slot.
ExtrasOfSlot(customerId, date, meal) ==
    SelectSeq(extras, LAMBDA e :
        e.customerId = customerId /\ e.date = date /\ e.mealType = meal)

\* C13 (as stated, with every fetch answered): in the dateWiseData of a
\* monthly or daily invoice a cell is "-" exactly when the store has no
\* extra of the customer for that date and slot, and is the formatted
\* display of the stored entry otherwise.
C13_EmptyDay ==
    ((IsInvoice(ret, "generateInvoiceData") \/ IsInvoice(ret, "generateDailyInvoiceData"))
       /\ AllUp(ret.net)) =>
        \A i \in 1..Len(ret.out.o.dateWiseData) : \A meal \in MealTypes :
            LET row == ret.out.o.dateWiseData[i]
                es == ExtrasOfSlot(ret.customerId, row.date, meal)
            IN  IF es = <<>>
                THEN row[meal] = "-"
                ELSE /\ row[meal] # "-"
                     /\ row[meal] = formatExtraDisplay(es[1], findMenuItem(menuItems, es[1].menuItemId))

-----------------------------------------------------------------------------
(* The calendar of the monthly invoice (checked under SpecCalendar)        *)

\* Years around the leap-year rules: a century that is no leap year, one
\* that is, a leap year and common years.
CalendarYears == {1900, 2000, 2023, 2024, 2026}

\* DB.generateInvoiceData(customerId, year, month) for any month of these
\* years, every fetch answered.
GenerateInvoiceOfMonth ==
    /\ ret = Idle
    /\ \E c \in CustomerIds, year \in CalendarYears, month \in 0..11,
          version \in Versions, tz \in TimeZones :
         /\ ret' = [op |-> "generateInvoiceData", customerId |-> c, year |-> year,
                    month |-> month, version |-> version, net |-> AllNet("ok"), tz |-> tz,
                    out |-> generateInvoiceData(version, AllNet("ok"), tz, Store, c, year, month)]
         /\ Served(InvoiceRequests(version, c, year), AllNet("ok"))
    /\ UNCHANGED <<nextId, clock, admitted, auth, lockedAt, pending, search>>

InitCalendar ==
    /\ TypeInit
    /\ extras = TableAfter(InvoiceForms)
    /\ nextId = Len(extras) + 1
    /\ clock = Len(extras)
    /\ admitted = {Content(e) : e \in SeqToSet(extras)}

NextCalendar ==
    \/ GenerateInvoiceOfMonth
    \/ Return

SpecCalendar == InitCalendar /\ [][NextCalendar]_vars

\* The Gregorian length of a month (counted from 0).
GregorianLength(year, month) ==
    IF month = 1
    THEN (IF year % 400 = 0 \/ (year % 4 = 0 /\ year % 100 # 0) THEN 29 ELSE 28)
    ELSE <<31, 0, 31, 30, 31, 30, 31, 31, 30, 31, 30, 31>>[month + 1]

\* C14: the dateWiseData of a monthly invoice has one row per calendar date
\* of the month, in ascending order with day values 1, 2, ..., daysInMonth,
\* where daysInMonth is the Gregorian length of the month and is the
\* daysInMonth of the summary.
C14_Rows ==
    IsInvoice(ret, "generateInvoiceData") =>
        LET rows == ret.out.o.dateWiseData
            n == GregorianLength(ret.year, ret.month)
        IN  /\ Len(rows) = n
            /\ ret.out.o.summary.daysInMonth = n
            /\ \A i \in 1..Len(rows) :
                 /\ rows[i].day = i
                 /\ NewDate(rows[i].date) = [y |-> ret.year, m |-> ret.month + 1, d |-> i]
                 /\ Len(rows[i].date) = 10

\* The invoice of February 2024: 29 rows, the last one 2024-02-29.
C14_Witness ==
    /\ IsInvoice(ret, "generateInvoiceData")
    /\ ret.year = 2024 /\ ret.month = 1
    /\ Len(ret.out.o.dateWiseData) = 29
    /\ ret.out.o.dateWiseData[29].date = "2024-02-29"
    /\ ret.out.o.dateWiseData[29].day = 29
    /\ ret.out.o.summary.daysInMonth = 29

\* C15 (as stated): an invoice call for a customer id that is absent from
\* the store returns no InvoiceData, whether the gateway answers or not,
\* and returns null when it answers.
C15_NotFound ==
    (ret.op \in {"generateInvoiceData", "generateDailyInvoiceData"}
       /\ \A i \in 1..Len(customers) : customers[i].id # ret.customerId) =>
        /\ ret.out.k # "obj"
        /\ ret.net.customer = "ok" => ret.out = JNull

\* Some fetch that the invoice computation of ret makes is not answered:
\* the customer, or, for a customer the store has, the extras, the menu
\* items or (monthly invoice of the first definition) the advances.
FetchFailed(r) ==
    \/ r.net.customer = "down"
    \/ /\ \E i \in 1..Len(customers) : customers[i].id = r.customerId
       /\ \/ r.net.extras = "down"
          \/ r.net.menu = "down"
          \/ (r.op = "generateInvoiceData" /\ r.version = 1 /\ r.net.advance = "down")

\* C16 (as stated): when a fetch of an invoice computation is not answered,
\* the failure reaches the caller and no InvoiceData (and no null) is
\* returned.
C16_FailurePropagates ==
    (ret.op \in {"generateInvoiceData", "generateDailyInvoiceData"} /\ FetchFailed(ret)) =>
        ret.out = Thrown

-----------------------------------------------------------------------------
(* Invoices generated while extras are entered (checked under SpecMixed)   *)

\* DB.generateInvoiceData for April 2026, between the writes of extras.
GenerateInvoiceNow ==
    /\ ret = Idle
    /\ \E c \in CustomerIds, version \in Versions, net \in DailyNets :
         /\ ret' = [op |-> "generateInvoiceData", customerId |-> c, year |-> 2026,
                    month |-> 3, version |-> version, net |-> net, tz |-> 330,
                    out |-> generateInvoiceData(version, net, 330, Store, c, 2026, 3)]
         /\ Served(InvoiceRequests(version, c, 2026), net)
    /\ UNCHANGED <<nextId, clock, admitted, auth, lockedAt, pending, search>>

\* DB.generateDailyInvoiceData for 5 April 2026, between the writes of extras.
GenerateDailyInvoiceNow ==
    /\ ret = Idle
    /\ \E c \in CustomerIds, version \in Versions, net \in DailyNets :
         /\ ret' = [op |-> "generateDailyInvoiceData", customerId |-> c,
                    date |-> "2026-04-05", version |-> version, net |-> net, tz |-> 330,
                    out |-> generateDailyInvoiceData(version, net, 330, Store, c, "2026-04-05")]
         /\ Served(DailyInvoiceRequests(c, "2026-04-05"), net)
    /\ UNCHANGED <<nextId, clock, admitted, auth, lockedAt, pending, search>>

\* The admission system with an advance payment of 500 on record.
InitMixed ==
    /\ customers = SeedCustomers
    /\ menuItems = SeedMenuItems
    /\ advances = SrvAddAdvance(<<>>, [customerId |-> "c1", amount |-> 500,
                                        month |-> 4, year |-> 2026], 1)
    /\ ret = Idle
    /\ extras \in {<<>>, SeedTable}
    /\ nextId = Len(extras) + 2
    /\ clock = 0
    /\ admitted = {Content(e) : e \in SeqToSet(extras)}
    /\ auth = AuthInit
    /\ lockedAt = Null
    /\ search = SearchInit
    /\ pending = NoPending

NextMixed ==
    \/ Save
    \/ DeleteEntry
    \/ DeleteByDetails
    \/ GenerateInvoiceNow
    \/ GenerateDailyInvoiceNow
    \/ Return

SpecMixed == InitMixed /\ [][NextMixed]_vars

C17_Step ==
    /\ (ret = Idle /\ ret'.op = "generateInvoiceData") =>
          /\ UNCHANGED <<customers, menuItems, extras, advances>>
          /\ \A i \in 1..Len(InvoiceRequests(ret'.version, ret'.customerId, ret'.year)) :
               InvoiceRequests(ret'.version, ret'.customerId, ret'.year)[i].method = "GET"
    /\ (ret = Idle /\ ret'.op = "generateDailyInvoiceData") =>
          /\ UNCHANGED <<customers, menuItems, extras, advances>>
          /\ \A i \in 1..Len(DailyInvoiceRequests(ret'.customerId, ret'.date)) :
               DailyInvoiceRequests(ret'.customerId, ret'.date)[i].method = "GET"
    /\ extras' # extras => ret'.op \in {"save", "deleteEntry", "deleteExtraByDetails"}

\* C17: invoice generation issues only read requests and leaves the
\* customers, menu items, extras and advance payments as they were; the
\* extras change only in the steps that save or remove an entry.
C17_ReadOnly == [][C17_Step]_vars

\* A monthly invoice has been computed from a store with three extras and
\* an advance payment, which are still there.
C17_Witness ==
    /\ IsInvoice(ret, "generateInvoiceData") /\ AllUp(ret.net) /\ ret.version = 1
    /\ ret.customerId = "c1"
    /\ ret.out.o.summary.extrasTotal = 120 /\ ret.out.o.summary.totalAdvance = 500
    /\ extras = SeedTable
    /\ Len(advances) = 1 /\ advances[1].amount = 500

-----------------------------------------------------------------------------
(* Invoices after changes of the menu (checked under SpecMenu)             *)

MenuItemIds == {"m1", "m2"}
NewPrices == {95, 120}

\* DB.updateMenuItem(id, {price})
UpdateMenuItem ==
    /\ ret = Idle
    /\ \E id \in MenuItemIds, price \in NewPrices, net \in NetStates :
         /\ Served(<<updateMenuItem(id, [price |-> price])>>, AllNet(net))
         /\ ret' = [op |-> "updateMenuItem", id |-> id, price |-> price, net |-> net]
    /\ UNCHANGED <<nextId, clock, admitted, auth, lockedAt, pending, search>>

\* DB.deleteMenuItem(id)
DeleteMenuItem ==
    /\ ret = Idle
    /\ \E id \in MenuItemIds, net \in NetStates :
         /\ Served(<<deleteMenuItem(id)>>, AllNet(net))
         /\ ret' = [op |-> "deleteMenuItem", id |-> id, net |-> net]
    /\ UNCHANGED <<nextId, clock, admitted, auth, lockedAt, pending, search>>

\* The extras of InvoiceForms have been admitted at the prices typed, the
\* menu being SeedMenuItems.
InitMenu ==
    /\ TypeInit
    /\ extras = TableAfter(InvoiceForms)
    /\ nextId = Len(extras) + 1
    /\ clock = Len(extras)
    /\ admitted = {Content(e) : e \in SeqToSet(extras)}

NextMenu ==
    \/ UpdateMenuItem
    \/ DeleteMenuItem
    \/ GenerateInvoiceNow
    \/ GenerateDailyInvoiceNow
    \/ Return

SpecMenu == InitMenu /\ [][NextMenu]_vars

\* The part of a cell from the first en dash on: price and note.
RECURSIVE FromDash(_)
FromDash(cell) ==
    IF Len(cell) < Len(EnDash) THEN ""
    ELSE IF SubSeq(cell, 1, Len(EnDash)) = EnDash THEN cell
    ELSE FromDash(SubSeq(cell, 2, Len(cell)))

\* C18: price capture.  Whatever has happened to the menu since the extras
\* were admitted, an invoice has the summary (per-meal totals, extrasTotal,
\* grandTotal) it has with the menu of the time of admission, every cell
\* shows the same price and note as with that menu, and, when the fetches
\* are answered, the price shown is the price stored with the extra.
C18_PriceCapture ==
    (IsInvoice(ret, "generateInvoiceData") \/ IsInvoice(ret, "generateDailyInvoiceData")) =>
        LET then == [Store EXCEPT !.menuItems = SeedMenuItems]
            was == IF ret.op = "generateInvoiceData"
                   THEN generateInvoiceData(ret.version, ret.net, ret.tz, then,
                                            ret.customerId, ret.year, ret.month)
                   ELSE generateDailyInvoiceData(ret.version, ret.net, ret.tz, then,
                                                 ret.customerId, ret.date)
            rows == ret.out.o.dateWiseData
        IN  /\ was.k = "obj"
            /\ ret.out.o.summary = was.o.summary
            /\ Len(rows) = Len(was.o.dateWiseData)
            /\ \A i \in 1..Len(rows) : \A meal \in MealTypes :
                 /\ FromDash(rows[i][meal]) = FromDash(was.o.dateWiseData[i][meal])
                 /\ AllUp(ret.net) =>
                      \A j \in 1..Len(extras) :
                          (extras[j].customerId = ret.customerId
                             /\ extras[j].date = rows[i].date
                             /\ extras[j].mealType = meal) =>
                          Includes(rows[i][meal],
                                   EnDash \o " " \o Rupee \o NumStr(extras[j].price))

\* The lunch item now costs 95 and the breakfast item is gone; the April
\* invoice still bills lunch at 80 and breakfast at 40 and shows them so.
C18_Witness ==
    /\ IsInvoice(ret, "generateInvoiceData") /\ AllUp(ret.net) /\ ret.customerId = "c1"
    /\ Len(menuItems) = 1 /\ menuItems[1].id = "m1" /\ menuItems[1].price = 95
    /\ ret.out.o.summary.lunchTotal = 80 /\ ret.out.o.summary.breakfastTotal = 40
    /\ ret.out.o.dateWiseData[5].lunch = "Veg Thali " \o EnDash \o " " \o Rupee \o "80"
    /\ ret.out.o.dateWiseData[5].breakfast =
           "Item " \o EnDash \o " " \o Rupee \o "40 (extra spicy)"

-----------------------------------------------------------------------------
(* The display formatter by itself (checked under SpecFormat)              *)

FormatPrices == {0, 40, 80, 120, 1500, NaN}
FormatNotes == {"", " ", " \t", "\n", "extra spicy", " less salt "}
FormatItems == {findMenuItem(SeedMenuItems, id) : id \in {"m1", "m2", "m9"}}

\* an extra and the result of the lookup of its menu item
InitFormat ==
    /\ customers = SeedCustomers
    /\ menuItems = SeedMenuItems
    /\ advances = <<>>
    /\ extras = <<>>
    /\ nextId = 1
    /\ clock = 0
    /\ admitted = {}
    /\ auth = AuthInit
    /\ lockedAt = Null
    /\ search = SearchInit
    /\ pending = NoPending
    /\ \E price \in FormatPrices, notes \in FormatNotes, menuItem \in FormatItems :
         ret = [op |-> "extra", extra |-> [price |-> price, notes |-> notes],
                menuItem |-> menuItem]

\* DB.formatExtraDisplay(extra, menuItem)
FormatExtra ==
    /\ ret.op = "extra"
    /\ ret' = [op |-> "formatExtraDisplay", extra |-> ret.extra, menuItem |-> ret.menuItem,
               out |-> formatExtraDisplay(ret.extra, ret.menuItem)]
    /\ UNCHANGED <<customers, menuItems, extras, advances, nextId, clock, admitted, auth, lockedAt, pending, search>>

NextFormat == FormatExtra

SpecFormat == InitFormat /\ [][NextFormat]_vars

\* Some character of the note is not white space.
NonBlank(note) == \E i \in 1..Len(note) : SubSeq(note, i, i) \notin WhiteSpace

\* C19: the display is "<name> <en dash> <rupee sign><price>", the name being
\* the menu item's or "Item" when the item is not resolved, followed by
\* " (<note>)" exactly when the note has a character that is not white space;
\* price 80 of "Veg Thali" with note "extra spicy" gives exactly
\* "Veg Thali \\u2013 \\u20B980 (extra spicy)" and with the empty note
\* "Veg Thali \\u2013 \\u20B980".
C19_Display ==
    ret.op = "formatExtraDisplay" =>
        LET name == IF ret.menuItem.k = "obj" THEN ret.menuItem.o.name ELSE "Item"
            base == name \o " \\u2013 \\u20B9" \o NumStr(ret.extra.price)
        IN  /\ NonBlank(ret.extra.notes) => ret.out = base \o " (" \o ret.extra.notes \o ")"
            /\ ~NonBlank(ret.extra.notes) => ret.out = base
            /\ (ret.menuItem.k = "obj" /\ ret.menuItem.o.name = "Veg Thali"
                  /\ ret.extra.price = 80) =>
                 /\ ret.extra.notes = "extra spicy" =>
                      ret.out = "Veg Thali \\u2013 \\u20B980 (extra spicy)"
                 /\ ret.extra.notes = "" => ret.out = "Veg Thali \\u2013 \\u20B980"

\* An unresolved item with a note of blanks only: "Item", no parentheses.
C19_Witness ==
    /\ ret.op = "formatExtraDisplay"
    /\ ret.menuItem.k # "obj"
    /\ ret.extra.notes = " \t"
    /\ ret.extra.price = 40
    /\ ret.out = "Item \\u2013 \\u20B940"

-----------------------------------------------------------------------------
(* The login with its lockout (checked under SpecAuth)                     *)

MaxCalls == 2
MaxTicks == 3
TickLength == 5 * 60 * 1000

Emails == {DefaultEmail, "Admin@BCFood.com", "eve@bcfood.com"}
Passwords == {DefaultPassword, "admin@123"}

\* The account has been locked and LOCKOUT_DURATION has not elapsed since.
InLockout == lockedAt # Null /\ auth.now < lockedAt + LOCKOUT_DURATION

\* The time of the lock that a write of the login attempts sets, if it does.
LockedBy(ls) ==
    IF getLoginAttempts(ls).lockedUntil = auth.now + LOCKOUT_DURATION
          /\ getLoginAttempts(ls) # getLoginAttempts(auth.ls)
    THEN auth.now ELSE lockedAt

LoginResult(email, password, called, out, ls) ==
    [op |-> "login", email |-> email, password |-> password,
     calledInLockout |-> called, returnedInLockout |-> InLockout,
     sessionCreated |-> ls.session # auth.ls.session, out |-> out]

\* Auth.login(email, password) is called and runs to its return or its await.
Login ==
    /\ ret = Idle
    /\ Len(auth.calls) < MaxCalls
    /\ \E email \in Emails, password \in Passwords :
         LET r == loginCall(auth.ls, auth.now, email, password)
         IN  /\ lockedAt' = LockedBy(r.ls)
             /\ IF r.done
                THEN /\ auth' = [auth EXCEPT !.ls = r.ls]
                     /\ ret' = LoginResult(email, password, InLockout, r.out, r.ls)
                ELSE /\ auth' = [auth EXCEPT !.ls = r.ls,
                                   !.calls = Append(@, r.call @@ [calledInLockout |-> InLockout])]
                     /\ ret' = ret
    /\ UNCHANGED <<customers, menuItems, extras, advances, nextId, clock, admitted,
                   pending, search>>

\* The digest of verifyPassword arrives and a waiting call of login goes on.
LoginResume ==
    /\ ret = Idle
    /\ \E i \in 1..Len(auth.calls) :
         LET call == auth.calls[i]
             r == loginResume(auth.ls, auth.now, call)
         IN  /\ lockedAt' = LockedBy(r.ls)
             /\ auth' = [auth EXCEPT !.ls = r.ls,
                           !.calls = SubSeq(@, 1, i - 1) \o SubSeq(@, i + 1, Len(@)),
                           !.timer = IF r.out.success THEN auth.now + CheckPeriod ELSE @]
             /\ ret' = LoginResult(call.email, call.password, call.calledInLockout,
                                   r.out, r.ls)
    /\ UNCHANGED <<customers, menuItems, extras, advances, nextId, clock, admitted,
                   pending, search>>

\* Auth.logout()
Logout ==
    /\ ret = Idle
    /\ auth.ls.session # JNull
    /\ auth' = [auth EXCEPT !.ls = clearSession(@), !.timer = Null]
    /\ UNCHANGED <<customers, menuItems, extras, advances, nextId, clock, ret, admitted,
                   lockedAt, pending, search>>

\* Five minutes pass.
Tick ==
    /\ ret = Idle
    /\ auth.now < MaxTicks * TickLength
    /\ auth' = [auth EXCEPT !.now = @ + TickLength]
    /\ UNCHANGED <<customers, menuItems, extras, advances, nextId, clock, ret, admitted,
                   lockedAt, pending, search>>

InitAuth ==
    /\ TypeInit
    /\ extras = <<>>
    /\ nextId = 1
    /\ clock = 0
    /\ admitted = {}

NextAuth ==
    \/ Login
    \/ LoginResume
    \/ Logout
    \/ Tick
    \/ Return

SpecAuth == InitAuth /\ [][NextAuth]_vars

\* C20: login lockout.  A call of login made while the account is locked and
\* the 15 minutes have not elapsed is refused and creates no session, with the
\* right credentials too; no call creates a session in that time; a call with
\* the right credentials made outside that time succeeds; and a call refused
\* for its email or password leaves a count of at least one failed attempt.
C20_Lockout ==
    ret.op = "login" =>
        /\ ret.calledInLockout => ~ret.out.success /\ ~ret.sessionCreated
        /\ ret.returnedInLockout => ~ret.sessionCreated
        /\ (~ret.calledInLockout /\ ret.email = DefaultEmail
              /\ ret.password = DefaultPassword) => ret.out.success
        /\ (~ret.out.success /\ ~ret.calledInLockout) =>
              getLoginAttempts(auth.ls).count >= 1

-----------------------------------------------------------------------------
(* The session and its expiry (checked under SpecSession)                  *)

MaxHalfMinutes == 34
HalfMinute == 30 * 1000

\* The administrator logs in with the right credentials and the digest of
\* verifyPassword arrives at once: Auth.login from its call to its return.
SessionLogin ==
    /\ ret = Idle
    /\ auth.ls.session = JNull
    /\ LET c == loginCall(auth.ls, auth.now, DefaultEmail, DefaultPassword)
           r == loginResume(c.ls, auth.now, c.call)
       IN  /\ ~c.done
           /\ auth' = [auth EXCEPT !.ls = r.ls, !.timer = auth.now + CheckPeriod]
           /\ ret' = [op |-> "login", out |-> r.out]
    /\ UNCHANGED <<customers, menuItems, extras, advances, nextId, clock, admitted,
                   lockedAt, pending, search>>

\* A click, keypress, scroll or mousemove reaches the listener that
\* startActivityTimer registered: updateLastActivity().
Activity ==
    /\ ret = Idle
    /\ auth' = [auth EXCEPT !.ls = updateLastActivity(@, auth.now)]
    /\ ret' = [op |-> "updateLastActivity", now |-> auth.now, before |-> auth.ls.session]
    /\ UNCHANGED <<customers, menuItems, extras, advances, nextId, clock, admitted,
                   lockedAt, pending, search>>

\* The interval of startActivityTimer fires: forceLogout unless isLoggedIn().
PeriodicCheck ==
    /\ ret = Idle
    /\ auth.timer # Null
    /\ auth.now >= auth.timer
    /\ LET r == isLoggedIn(auth.ls, auth.now)
       IN  /\ auth' = IF r.out
                      THEN [auth EXCEPT !.ls = r.ls, !.timer = @ + CheckPeriod]
                      ELSE [auth EXCEPT !.ls = clearSession(r.ls), !.timer = Null]
           /\ ret' = [op |-> "periodicCheck", now |-> auth.now,
                      before |-> auth.ls.session, out |-> r.out]
    /\ UNCHANGED <<customers, menuItems, extras, advances, nextId, clock, admitted,
                   lockedAt, pending, search>>

\* A page is opened: requireAuth() asks isLoggedIn().
RequireAuth ==
    /\ ret = Idle
    /\ LET r == isLoggedIn(auth.ls, auth.now)
       IN  /\ auth' = [auth EXCEPT !.ls = r.ls]
           /\ ret' = [op |-> "isLoggedIn", now |-> auth.now,
                      before |-> auth.ls.session, out |-> r.out]
    /\ UNCHANGED <<customers, menuItems, extras, advances, nextId, clock, admitted,
                   lockedAt, pending, search>>

\* Half a minute passes; the interval fires when it is due.
Elapse ==
    /\ ret = Idle
    /\ auth.now < MaxHalfMinutes * HalfMinute
    /\ auth.timer # Null => auth.now < auth.timer
    /\ auth' = [auth EXCEPT !.now = @ + HalfMinute]
    /\ UNCHANGED <<customers, menuItems, extras, advances, nextId, clock, ret, admitted,
                   lockedAt, pending, search>>

InitSession == InitAuth

NextSession ==
    \/ SessionLogin
    \/ Activity
    \/ PeriodicCheck
    \/ RequireAuth
    \/ Elapse
    \/ Return

SpecSession == InitSession /\ [][NextSession]_vars

\* The session of a state is one whose last recorded activity is more than
\* SESSION_TIMEOUT ago.
Expired(a) ==
    a.ls.session.k = "obj" /\ a.now - a.ls.session.o.lastActivity > SESSION_TIMEOUT

C21_Answer ==
    ret.op \in {"isLoggedIn", "periodicCheck"} =>
        /\ ret.out = (ret.before.k = "obj"
                        /\ ret.now - ret.before.o.lastActivity <= SESSION_TIMEOUT)
        /\ ~ret.out => auth.ls.session = JNull
        /\ (ret.op = "periodicCheck" /\ ~ret.out) => auth.timer = Null

C21_Step ==
    /\ (auth.ls.session = JNull /\ auth'.ls.session # JNull) =>
           (ret'.op = "login" /\ ret'.out.success)
    /\ Expired(auth) => auth'.ls.session \in {JNull, auth.ls.session}

\* C21: session expiry.  isLoggedIn answers true exactly for a session whose
\* last recorded activity is at most 15 minutes ago and removes any other; the
\* periodic check that finds none logs out; a removed session comes back only
\* by a successful login; and a session whose last activity is more than 15
\* minutes ago is not treated as a live one: no step refreshes it.
C21_SessionExpiry == []C21_Answer /\ [][C21_Step]_vars

-----------------------------------------------------------------------------
(* The customer form (checked under SpecCustomers)                         *)

MaxCustomers == 3

\* What the form can hold: custMobile takes at most 10 characters of any kind.
CustomerForms ==
    [name : {"Meena", " "},
     mobile : {"9876543210", "98765", "", " 98765432 ", "98765abcde", "9876 43210"},
     address : {"", "12 Car Street "},
     subscriptionType : {"daily"},
     amount : {"300", ""},
     startDate : {"2026-04-01"},
     status : {"active"}]

\* The administrator submits the customer form: Customers.save.
SaveCustomer ==
    /\ ret = Idle
    /\ \E form \in CustomerForms, editId \in {"", "c1"}, net \in NetStates :
         LET r == saveCustomer(form, editId, "2026-04-05")
         IN  /\ editId = "" => Len(customers) < MaxCustomers
             /\ Served(r.requests, AllNet(net))
             /\ ret' = [op |-> "Customers.save", form |-> form, editId |-> editId,
                        net |-> net, toast |-> r.toast, requests |-> r.requests]
    /\ UNCHANGED <<nextId, clock, admitted, auth, lockedAt, pending, search>>

NextCustomers ==
    \/ SaveCustomer
    \/ Return

SpecCustomers == InitAuth /\ [][NextCustomers]_vars

\* exactly 10 digit characters
TenDigits(str) == Len(str) = 10 /\ \A i \in 1..10 : SubSeq(str, i, i) \in Digits

\* C22: every customer that Customers.save has written has a mobile number
\* of exactly 10 digits, and a save whose mobile number is not exactly 10
\* digits shows an error and sends neither the POST of addCustomer nor the
\* PUT of updateCustomer.
C22_MobileTenDigits ==
    /\ \A i \in 1..Len(customers) :
         "mobile" \in DOMAIN customers[i] => TenDigits(customers[i].mobile)
    /\ (ret.op = "Customers.save" /\ ~TenDigits(ret.form.mobile)) => ret.requests = <<>>

-----------------------------------------------------------------------------
(* Extras posted at the same time (checked under SpecConcurrent)           *)

MaxWrites == 2
MaxPosts == 3

\* The extras of the calls of DB.addDailyExtra: two fillings of one slot and
\* a filling of another slot.
ConcurrentExtras ==
    { [customerId |-> "c1", date |-> "2026-04-05", mealType |-> "lunch",
       menuItemId |-> "m1", price |-> 80, notes |-> ""],
      [customerId |-> "c1", date |-> "2026-04-05", mealType |-> "lunch",
       menuItemId |-> "m2", price |-> 40, notes |-> "extra spicy"],
      [customerId |-> "c1", date |-> "2026-04-05", mealType |-> "dinner",
       menuItemId |-> "m1", price |-> 80, notes |-> ""] }

Without(q, i) == SubSeq(q, 1, i - 1) \o SubSeq(q, i + 1, Len(q))

\* DB.addDailyExtra(extra): the POST of /extras is on its way.
PostExtra ==
    /\ Len(pending.writes) < MaxWrites
    /\ clock + Len(pending.writes) < MaxPosts
    /\ \E extra \in ConcurrentExtras :
         LET body == JsonExtra(extra)
         IN  pending' = [pending EXCEPT
                 !.writes = Append(@, [body |-> body, phase |-> "sent", found |-> Null]),
                 !.sent = @ \cup {Content(extra)},
                 !.overlapped = @ \/ \E i \in 1..Len(pending.writes) :
                                        SameSlot(pending.writes[i].body, body)]
    /\ UNCHANGED <<customers, menuItems, extras, advances, nextId, clock, ret, admitted,
                   auth, lockedAt, search>>

\* The gateway serves a POST of /extras in one step.
GatewayUpsert ==
    /\ pending.atomic
    /\ \E i \in 1..Len(pending.writes) :
         /\ extras' = SrvUpsertExtra(extras, pending.writes[i].body, nextId, clock + 1)
         /\ pending' = [pending EXCEPT !.writes = Without(@, i)]
    /\ nextId' = IF Len(extras') > Len(extras) THEN nextId + 1 ELSE nextId
    /\ clock' = clock + 1
    /\ UNCHANGED <<customers, menuItems, advances, ret, admitted, auth, lockedAt, search>>

\* The gateway looks up the slot of a POST of /extras.
GatewayFind ==
    /\ ~pending.atomic
    /\ \E i \in 1..Len(pending.writes) :
         /\ pending.writes[i].phase = "sent"
         /\ pending' = [pending EXCEPT
                 !.writes[i].phase = "found",
                 !.writes[i].found = SrvFindExtra(extras, pending.writes[i].body)]
    /\ UNCHANGED <<customers, menuItems, extras, advances, nextId, clock, ret, admitted,
                   auth, lockedAt, search>>

\* The gateway writes what its lookup decided.
GatewayWrite ==
    /\ ~pending.atomic
    /\ \E i \in 1..Len(pending.writes) :
         /\ pending.writes[i].phase = "found"
         /\ extras' = SrvWriteExtra(extras, pending.writes[i].body,
                                    pending.writes[i].found, nextId, clock + 1)
         /\ pending' = [pending EXCEPT !.writes = Without(@, i)]
    /\ nextId' = IF Len(extras') > Len(extras) THEN nextId + 1 ELSE nextId
    /\ clock' = clock + 1
    /\ UNCHANGED <<customers, menuItems, advances, ret, admitted, auth, lockedAt, search>>

InitConcurrent ==
    /\ customers = SeedCustomers
    /\ menuItems = SeedMenuItems
    /\ advances = <<>>
    /\ ret = Idle
    /\ auth = AuthInit
    /\ lockedAt = Null
    /\ search = SearchInit
    /\ extras = <<>>
    /\ nextId = 1
    /\ clock = 0
    /\ admitted = {}
    /\ \E atomic \in BOOLEAN : pending = [NoPending EXCEPT !.atomic = atomic]

NextConcurrent ==
    \/ PostExtra
    \/ GatewayUpsert
    \/ GatewayFind
    \/ GatewayWrite

SpecConcurrent == InitConcurrent /\ [][NextConcurrent]_vars

\* The entries of the slot of x.
InSlot(x) == {i \in 1..Len(extras) : SameSlot(extras[i], x)}

\* C23: with the upsert of the gateway atomic, POSTs of one slot that are
\* under way together leave at most one entry of the slot, every entry has
\* the item, price and note of one of the calls, and when no POST of the
\* slot is left there is exactly one entry of it.
C23_AtomicSingleSlot ==
    pending.atomic =>
        /\ \A i \in 1..Len(extras) : InSlot(extras[i]) = {i}
        /\ \A i \in 1..Len(extras) : Content(extras[i]) \in pending.sent
        /\ \A x \in pending.sent :
             (\A i \in 1..Len(pending.writes) : ~SameSlot(pending.writes[i].body, x))
                 => Cardinality(InSlot(x)) = 1

\* Two fillings of the lunch slot were under way together; both have been
\* served and the one entry of the slot has the first filling.
C23_Witness ==
    /\ pending.atomic /\ pending.overlapped /\ pending.writes = <<>>
    /\ Cardinality({x \in pending.sent : x.mealType = "lunch"}) = 2
    /\ \E i \in 1..Len(extras) :
         /\ extras[i].mealType = "lunch" /\ extras[i].menuItemId = "m1"
         /\ extras[i].notes = "" /\ extras[i].updatedAt > extras[i].createdAt
         /\ InSlot(extras[i]) = {i}

\* Without the atomicity: two entries of one slot.
C23_DirtyOverwrite ==
    /\ ~pending.atomic
    /\ \E i, j \in 1..Len(extras) : i # j /\ SameSlot(extras[i], extras[j])

-----------------------------------------------------------------------------
(* Daily and monthly invoices side by side (checked under SpecInvoice)     *)

\* C24: same join.  The cells of a daily invoice of customer and date d are
\* the cells of the row of d in the monthly invoice of the customer for the
\* month of d, computed from the same tables, and its per-meal totals are
\* what that row adds to the monthly per-meal totals.
C24_SameJoin ==
    (IsInvoice(ret, "generateDailyInvoiceData") /\ AllUp(ret.net)) =>
        LET year == DigitsVal(SubSeq(ret.date, 1, 4))
            month == DigitsVal(SubSeq(ret.date, 6, 7)) - 1
            day == DigitsVal(SubSeq(ret.date, 9, 10))
            monthly == generateInvoiceData(ret.version, ret.net @@ [advance |-> "ok"],
                                           ret.tz, Store, ret.customerId, year, month)
            list == AsList(getExtrasByCustomerAndMonth(ret.version, "ok", Store, ret.tz,
                                                       ret.customerId, year, month))
            daily == ret.out.o
        IN  /\ monthly.k = "obj"
            /\ monthly.o.dateWiseData[day].date = ret.date
            /\ \A meal \in MealTypes :
                 /\ monthly.o.dateWiseData[day][meal] = daily.dateWiseData[1][meal]
                 /\ AddPrices(0, DayMeals(list, ret.date, meal)) = MealSum(
                        SelectSeq(extras, LAMBDA e : e.customerId = ret.customerId
                                                       /\ e.date = ret.date), meal)
                 /\ MealSum(SelectSeq(extras, LAMBDA e : e.customerId = ret.customerId
                                                           /\ e.date = ret.date), meal)
                      = daily.summary[meal \o "Total"]

-----------------------------------------------------------------------------
(* Several entries in one slot (checked under SpecDuplicates)              *)

MaxEntries == 3

\* Entries a writer puts into the table past the admission rule.
DirectExtras ==
    { [customerId |-> "c1", date |-> "2026-04-05", mealType |-> "lunch",
       menuItemId |-> "m1", price |-> 80, notes |-> ""],
      [customerId |-> "c1", date |-> "2026-04-05", mealType |-> "lunch",
       menuItemId |-> "m2", price |-> 40, notes |-> "extra spicy"],
      [customerId |-> "c1", date |-> "2026-04-05", mealType |-> "breakfast",
       menuItemId |-> "m2", price |-> 40, notes |-> ""],
      [customerId |-> "c2", date |-> "2026-04-05", mealType |-> "lunch",
       menuItemId |-> "m1", price |-> 80, notes |-> ""] }

\* An entry is added to the table without the lookup of its slot.
StoreDirectly ==
    /\ ret = Idle
    /\ Len(extras) < MaxEntries
    /\ \E x \in DirectExtras :
         extras' = SrvWriteExtra(extras, x, Null, nextId, clock + 1)
    /\ nextId' = nextId + 1
    /\ clock' = clock + 1
    /\ UNCHANGED <<customers, menuItems, advances, ret, admitted, auth, lockedAt, pending, search>>

NextDuplicates ==
    \/ StoreDirectly
    \/ GenerateInvoiceNow
    \/ GenerateDailyInvoiceNow
    \/ Return

SpecDuplicates == InitAuth /\ [][NextDuplicates]_vars

RECURSIVE Lines(_)
\* The displays of entries, "<br>" between one and the next.
Lines(es) ==
    LET first == formatExtraDisplay(es[1], findMenuItem(menuItems, es[1].menuItemId))
    IN  IF Len(es) = 1 THEN first ELSE first \o "<br>" \o Lines(Tail(es))

\* C25: whatever number of entries the table holds for a slot, the cell of
\* the slot in a monthly or daily invoice is "-" for none and otherwise the
\* displays of all of them with "<br>" between, and the total of the meal is
\* the sum of the prices of all of them.
C25_AllEntries ==
    ((IsInvoice(ret, "generateInvoiceData") \/ IsInvoice(ret, "generateDailyInvoiceData"))
        /\ AllUp(ret.net)) =>
        LET rows == ret.out.o.dateWiseData
        IN  \A meal \in MealTypes :
              /\ \A r \in 1..Len(rows) :
                   LET es == SelectSeq(extras, LAMBDA e :
                                 e.customerId = ret.customerId /\ e.date = rows[r].date
                                 /\ e.mealType = meal)
                   IN  rows[r][meal] = IF es = <<>> THEN "-" ELSE Lines(es)
              /\ ret.out.o.summary[meal \o "Total"] =
                   AddPrices(0, SelectSeq(extras, LAMBDA e :
                                   e.customerId = ret.customerId /\ e.mealType = meal))

\* The lunch of c1 on 5 April has been stored twice with one filling and
\* once with another: three lines in the cell, 200 in the total.
C25_Witness ==
    /\ IsInvoice(ret, "generateInvoiceData") /\ AllUp(ret.net) /\ ret.customerId = "c1"
    /\ Len(extras) = 3
    /\ ret.out.o.dateWiseData[5].lunch =
           "Veg Thali \\u2013 \\u20B980<br>Idli \\u2013 \\u20B940 (extra spicy)"
           \o "<br>Veg Thali \\u2013 \\u20B980"
    /\ ret.out.o.summary.lunchTotal = 200
    /\ ret.out.o.summary.extrasTotal = 200

-----------------------------------------------------------------------------
(* The other meals of a date after an extra is saved (checked under Spec)  *)

\* The row of the date of the extra just saved, in the daily invoice and in
\* the monthly invoice of its month, for a browser in time zone tz.
RowsOfSaved(version, tz) ==
    LET x == ret.extra
        daily == generateDailyInvoiceData(version, AllNet("ok"), tz, Store,
                                          x.customerId, x.date)
        monthly == generateInvoiceData(version, AllNet("ok"), tz, Store, x.customerId,
                                       DigitsVal(SubSeq(x.date, 1, 4)),
                                       DigitsVal(SubSeq(x.date, 6, 7)) - 1)
    IN  << daily.o.dateWiseData[1],
           monthly.o.dateWiseData[DigitsVal(SubSeq(x.date, 9, 10))] >>

\* The slot (customer and date of the extra just saved, meal) has an entry.
HasEntry(meal) ==
    \E e \in SeqToSet(extras) :
        e.customerId = ret.extra.customerId /\ e.date = ret.extra.date /\ e.mealType = meal

-----------------------------------------------------------------------------
(* SpecSearch: typing into the search box                                  *)

MaxInputs == 3
MaxSearchSteps == 7
SearchStep == DEBOUNCE_DELAY \div 3
Queries == {"", "a", "ab", "abc"}

\* An input event of the search box (or a transcript of the voice search).
SearchInput ==
    /\ Len(search.inputs) < MaxInputs
    /\ \E query \in Queries : search' = handleSearchInput(search, query)
    /\ UNCHANGED <<customers, menuItems, extras, advances, nextId, clock, ret, admitted,
                   auth, lockedAt, pending>>

\* A timer that is due runs its callback, at its time or later.
TimerFires ==
    /\ \E t \in search.timers :
         /\ search.now >= t.due
         /\ search' = timerCallback(search, t)
    /\ UNCHANGED <<customers, menuItems, extras, advances, nextId, clock, ret, admitted,
                   auth, lockedAt, pending>>

\* A tenth of a second passes.
SearchElapse ==
    /\ search.now < MaxSearchSteps * SearchStep
    /\ search' = [search EXCEPT !.now = @ + SearchStep]
    /\ UNCHANGED <<customers, menuItems, extras, advances, nextId, clock, ret, admitted,
                   auth, lockedAt, pending>>

NextSearch == SearchInput \/ TimerFires \/ SearchElapse

SpecSearch == InitAuth /\ [][NextSearch]_vars

\* C27: at most one debounce timer is pending at a time; every performSearch
\* call is for an input of at least 2 characters, made at least 300 ms before
\* it, with no input between that input and the call and so none within
\* 300 ms of it; and once an input shorter than 2 characters has been heard no
\* search for an earlier input is made.
C27_Debounce ==
    /\ Cardinality(search.timers) <= 1
    /\ \A i \in 1..Len(search.done) :
         LET d == search.done[i]
             typed == search.inputs[d.input]
         IN  /\ d.query = typed.query
             /\ Len(d.query) >= MIN_SEARCH_LENGTH
             /\ d.at >= typed.at + DEBOUNCE_DELAY
             /\ d.heard = d.input
             /\ \A k \in (d.input + 1)..Len(search.inputs) :
                  /\ search.inputs[k].at >= typed.at + DEBOUNCE_DELAY
                  /\ search.inputs[k].at >= d.at
    /\ \A k \in 1..Len(search.inputs) :
         Len(search.inputs[k].query) < MIN_SEARCH_LENGTH =>
             /\ \A t \in search.timers : t.input > k
             /\ \A i \in 1..Len(search.done) :
                  search.done[i].input < k => search.done[i].heard < k

\* "ab" was typed, then "a" within 300 ms, which cancelled the search for
\* "ab"; then "abc" was typed and searched for.
C27_Witness ==
    /\ Len(search.inputs) = 3
    /\ search.inputs[1].query = "ab"
    /\ search.inputs[2].query = "a"
    /\ search.inputs[2].at < search.inputs[1].at + DEBOUNCE_DELAY
    /\ search.inputs[3].query = "abc"
    /\ Len(search.done) = 1
    /\ search.done[1].query = "abc"
    /\ search.now >= search.inputs[1].at + 2 * DEBOUNCE_DELAY

-----------------------------------------------------------------------------
(* Auth: changing the credentials                                          *)

CharsOf(str) == {SubSeq(str, i, i) : i \in 1..Len(str)}
LowerChars == CharsOf(LowerCase)
SpecialChars == CharsOf("!@#$%^&*(),.?\":{}|<>")

\* /^[^\s@]+@[^\s@]+\.[^\s@]+$/.test(email)
emailRegex(email) ==
    LET parts == Split(email, "@")
    IN  /\ Len(parts) = 2
        /\ CharsOf(email) \cap WhiteSpace = {}
        /\ parts[1] # ""
        /\ \E i \in 2..(Len(parts[2]) - 1) : SubSeq(parts[2], i, i) = "."

\* validatePasswordStrength(password)
validatePasswordStrength(password) ==
    IF Len(password) < 8
    THEN [valid |-> FALSE, message |-> "Password must be at least 8 characters long."]
    ELSE IF CharsOf(password) \cap UpperChars = {}
    THEN [valid |-> FALSE,
          message |-> "Password must contain at least one uppercase letter."]
    ELSE IF CharsOf(password) \cap LowerChars = {}
    THEN [valid |-> FALSE,
          message |-> "Password must contain at least one lowercase letter."]
    ELSE IF CharsOf(password) \cap Digits = {}
    THEN [valid |-> FALSE, message |-> "Password must contain at least one number."]
    ELSE IF CharsOf(password) \cap SpecialChars = {}
    THEN [valid |-> FALSE,
          message |-> "Password must contain at least one special character."]
    ELSE [valid |-> TRUE, message |-> ""]

\* logCredentialChange(type): the last 10 entries are kept
logCredentialChange(ls, type) ==
    LET logs == Append(ls.log, [type |-> type])
    IN  [ls EXCEPT !.log = SubSeq(logs, IF Len(logs) > 10 THEN Len(logs) - 9 ELSE 1,
                                  Len(logs))]

\* changeEmail or changePassword up to its first await: the result when it
\* returns at once, or the call left waiting for the digest of verifyPassword
\* with the credentials it has read.
changeCall(ls, kind, currentPassword, newValue) ==
    IF ls.admin.k # "obj"
    THEN [done |-> TRUE,
          out |-> [success |-> FALSE, message |-> "System error. Please try again."]]
    ELSE [done |-> FALSE,
          call |-> [kind |-> kind, admin |-> ls.admin.o, at |-> "verify",
                    currentPassword |-> currentPassword, newValue |-> newValue]]

\* changeEmail(newEmail, currentPassword) after the await of verifyPassword
changeEmailResume(ls, call) ==
    IF ~verifyPassword(call.currentPassword, call.admin.password)
    THEN [ls |-> ls,
          out |-> [success |-> FALSE, message |-> "Current password is incorrect."]]
    ELSE IF ~emailRegex(call.newValue)
    THEN [ls |-> ls,
          out |-> [success |-> FALSE, message |-> "Please enter a valid email address."]]
    ELSE [ls |-> logCredentialChange(
                   [ls EXCEPT !.admin = JObj([call.admin EXCEPT
                                                !.email = toLowerCase(call.newValue)])],
                   "email"),
          out |-> [success |-> TRUE,
                   message |-> "Email updated successfully! Please login with your new email."]]

\* changePassword(currentPassword, newPassword) after the await of
\* verifyPassword: the result when it fails, or the call left waiting for the
\* digest of hashPassword.
changePasswordResume(call) ==
    IF ~verifyPassword(call.currentPassword, call.admin.password)
    THEN [done |-> TRUE,
          out |-> [success |-> FALSE, message |-> "Current password is incorrect."]]
    ELSE IF ~validatePasswordStrength(call.newValue).valid
    THEN [done |-> TRUE,
          out |-> [success |-> FALSE,
                   message |-> validatePasswordStrength(call.newValue).message]]
    ELSE [done |-> FALSE, call |-> [call EXCEPT !.at = "hash"]]

\* changePassword(currentPassword, newPassword) after the await of
\* hashPassword, the salt being the one generateSalt drew
changePasswordFinish(ls, call, salt) ==
    [ls |-> logCredentialChange(
              [ls EXCEPT !.admin = JObj([call.admin EXCEPT
                                           !.password = hashPassword(salt, call.newValue)])],
              "password"),
     out |-> [success |-> TRUE,
              message |-> "Password changed successfully! Please login with your new password."]]

-----------------------------------------------------------------------------
(* SpecCredentials: calls of changeEmail and changePassword                *)

MaxChanges == 3
NewPassword == "Better@456"
CurrentPasswords == {DefaultPassword, NewPassword, "guess"}
NewPasswords == {NewPassword, "better@456", "Bt@4"}
NewEmails == {"Owner@Cafe.in", "owner.cafe.in", "owner@cafe"}
Salts == {"9c41d2e0"}

\* What a call of changeEmail or changePassword has returned.
ChangeResult(call, out) ==
    [op |-> call.kind, currentPassword |-> call.currentPassword,
     newValue |-> call.newValue, out |-> out]

\* changeEmail or changePassword is called.
ChangeCall ==
    /\ Len(auth.ls.log) + Len(auth.changes) < MaxChanges
    /\ \E kind \in {"changeEmail", "changePassword"}, currentPassword \in CurrentPasswords :
         \E newValue \in IF kind = "changeEmail" THEN NewEmails ELSE NewPasswords :
            LET r == changeCall(auth.ls, kind, currentPassword, newValue)
            IN  IF r.done
                THEN /\ auth' = auth
                     /\ ret' = [op |-> kind, currentPassword |-> currentPassword,
                                newValue |-> newValue, out |-> r.out]
                ELSE /\ auth' = [auth EXCEPT !.changes = Append(@, r.call)]
                     /\ ret' = Idle
    /\ UNCHANGED <<customers, menuItems, extras, advances, nextId, clock, admitted,
                   lockedAt, pending, search>>

\* The digest of verifyPassword arrives and a waiting call goes on.
ChangeResume ==
    /\ \E i \in 1..Len(auth.changes) :
         LET call == auth.changes[i]
         IN  /\ call.at = "verify"
             /\ IF call.kind = "changeEmail"
                THEN LET r == changeEmailResume(auth.ls, call)
                     IN  /\ auth' = [auth EXCEPT !.ls = r.ls, !.changes = Without(@, i)]
                         /\ ret' = ChangeResult(call, r.out)
                ELSE LET r == changePasswordResume(call)
                     IN  IF r.done
                         THEN /\ auth' = [auth EXCEPT !.changes = Without(@, i)]
                              /\ ret' = ChangeResult(call, r.out)
                         ELSE /\ auth' = [auth EXCEPT !.changes[i] = r.call]
                              /\ ret' = Idle
    /\ UNCHANGED <<customers, menuItems, extras, advances, nextId, clock, admitted,
                   lockedAt, pending, search>>

\* The digest of hashPassword arrives and changePassword stores the hash.
ChangeFinish ==
    /\ \E i \in 1..Len(auth.changes), salt \in Salts :
         LET call == auth.changes[i]
             r == changePasswordFinish(auth.ls, call, salt)
         IN  /\ call.at = "hash"
             /\ auth' = [auth EXCEPT !.ls = r.ls, !.changes = Without(@, i)]
             /\ ret' = ChangeResult(call, r.out)
    /\ UNCHANGED <<customers, menuItems, extras, advances, nextId, clock, admitted,
                   lockedAt, pending, search>>

NextCredentials == ChangeCall \/ ChangeResume \/ ChangeFinish

SpecCredentials == InitAuth /\ [][NextCredentials]_vars

\* The new value of the call that has just returned passes its validation.
NewValueValid(r) ==
    IF r.op = "changeEmail" THEN emailRegex(r.newValue)
    ELSE validatePasswordStrength(r.newValue).valid

\* C28: a step changes the stored credentials or the credential log only when
\* a call of changeEmail or changePassword returns success in it, the current
\* password it was given verifies against the hash stored before the step and
\* its new value passes validation; a call that returns a failure leaves the
\* stored email, the stored hash and the log as they were.
C28_Step ==
    /\ (auth'.ls.admin # auth.ls.admin \/ auth'.ls.log # auth.ls.log) =>
          /\ ret'.op \in {"changeEmail", "changePassword"}
          /\ ret'.out.success
          /\ verifyPassword(ret'.currentPassword, auth.ls.admin.o.password)
          /\ NewValueValid(ret')
    /\ (ret'.op \in {"changeEmail", "changePassword"} /\ ~ret'.out.success) =>
          /\ auth'.ls.admin = auth.ls.admin
          /\ auth'.ls.log = auth.ls.log

C28_CredentialChange == [][C28_Step]_vars

\* The same with the hash the call read when it was made in place of the hash
\* stored before the step: what holds of overlapping calls too.
C28_StepOfCall ==
    (auth'.ls.admin # auth.ls.admin \/ auth'.ls.log # auth.ls.log) =>
        \E i \in 1..Len(auth.changes) :
            LET call == auth.changes[i]
            IN  /\ ret' = ChangeResult(call, ret'.out)
                /\ ret'.out.success
                /\ verifyPassword(call.currentPassword, call.admin.password)
                /\ NewValueValid(ret')

C28_OfCall == [][C28_StepOfCall]_vars

\* A password change and an email change have both been stored.
C28_Changed ==
    /\ Len(auth.ls.log) = 2
    /\ auth.ls.admin.o.email = "owner@cafe.in"
    /\ verifyPassword(NewPassword, auth.ls.admin.o.password)

-----------------------------------------------------------------------------
(* The frame of a save (checked under Spec)                                *)

\* The entries of q outside the slot of x, in the order of the table.
OutsideSlot(q, x) == SelectSeq(q, LAMBDA e : ~SameSlot(e, x))

\* C29: a call of Extras.save for a customer, date and meal changes at most
\* the entry of that slot: the entries of every other customer, date and meal
\* stay as they were, in their order, and so do the customers, the menu items
\* and the advance payments.
C29_Step ==
    (ret = Idle /\ ret'.op = "save") =>
        /\ OutsideSlot(extras', ret'.extra) = OutsideSlot(extras, ret'.extra)
        /\ UNCHANGED <<customers, menuItems, advances>>

-----------------------------------------------------------------------------
(* SpecInterleaved: writes between the fetches of one monthly invoice      *)

\* The fetches of generateInvoiceData, in the order it awaits them.
InvoiceFetches(version) ==
    IF version = 1 THEN <<"customer", "extras", "menu", "advance">>
    ELSE <<"customer", "extras", "menu">>

\* Nothing fetched yet.
NothingSeen == [customers |-> <<>>, menuItems |-> <<>>, extras |-> <<>>, advances |-> <<>>]

\* What the computation has seen once the fetch has read its table of S.
SeenAfter(seen, fetch, S) ==
    IF fetch = "customer" THEN [seen EXCEPT !.customers = S.customers]
    ELSE IF fetch = "extras" THEN [seen EXCEPT !.extras = S.extras]
    ELSE IF fetch = "menu" THEN [seen EXCEPT !.menuItems = S.menuItems]
    ELSE [seen EXCEPT !.advances = S.advances]

\* What the await of the fetch resolves to.
Fetched(inv, fetch, seen) ==
    IF fetch = "customer" THEN getCustomer(inv.version, inv.net.customer, seen, inv.customerId)
    ELSE IF fetch = "extras"
    THEN getExtrasByCustomerAndMonth(inv.version, inv.net.extras, seen, inv.tz,
                                     inv.customerId, inv.year, inv.month)
    ELSE IF fetch = "menu" THEN getMenuItems(inv.version, inv.net.menu, seen)
    ELSE getAdvancePayments(inv.version, inv.net.advance, seen, inv.customerId, inv.year)

MaxInterleaved == 2
InterleavedCalls ==
    [customerId : {"c1", UnknownCustomer}, year : {2026}, month : {3},
     version : Versions, net : {AllNet("ok")}, tz : TimeZones]
InterleavedForms ==
    { Form("c1", "2026-04-05", "dinner", [menuItemId |-> "m2", price |-> "40", notes |-> ""]),
      Form("c1", "2026-04-05", "lunch", [menuItemId |-> "m1", price |-> "95", notes |-> "less oil"]) }

\* Extras.save of one of the forms, served by the gateway.
WriteExtra ==
    /\ ret = Idle
    /\ clock < MaxInterleaved
    /\ \E form \in InterleavedForms, version \in Versions :
         LET r == save(version, "ok", extras, form, nextId, clock + 1)
         IN  /\ extras' = r.extras
             /\ clock' = clock + 1
             /\ nextId' = IF Len(r.extras) > Len(extras) THEN nextId + 1 ELSE nextId
             /\ ret' = [op |-> "save", form |-> form, net |-> "ok",
                        extra |-> r.extra, posted |-> r.posted, delivered |-> TRUE,
                        toasts |-> r.toasts,
                        existed |-> (\E e \in SeqToSet(extras) : SameSlot(e, r.extra))]
             /\ admitted' = {a \in admitted : ~SameSlot(a, r.extra)}
                               \cup {Content(JsonExtra(r.extra))}
    /\ UNCHANGED <<customers, menuItems, advances, auth, lockedAt, pending, search>>

\* Extras.deleteEntry of the lunch of c1 on 5 April, confirmed and served.
RemoveExtra ==
    /\ ret = Idle
    /\ clock < MaxInterleaved
    /\ \E version \in Versions :
         LET r == deleteEntry(version, "ok", extras, "c1", "2026-04-05", "lunch", TRUE)
         IN  /\ extras' = r.extras
             /\ clock' = clock + 1
             /\ ret' = [op |-> "deleteEntry", customerId |-> "c1", date |-> "2026-04-05",
                        mealType |-> "lunch", net |-> "ok", posted |-> r.posted,
                        delivered |-> TRUE, toasts |-> r.toasts]
             /\ admitted' = {a \in admitted :
                               ~(a.customerId = "c1" /\ a.date = "2026-04-05"
                                 /\ a.mealType = "lunch")}
    /\ UNCHANGED <<customers, menuItems, advances, nextId, auth, lockedAt, pending, search>>

\* DB.generateInvoiceData is called; its first fetch is still to be served.
InvoiceCall ==
    /\ ret = Idle
    /\ pending.invoice = JNull
    /\ \E inv \in InterleavedCalls :
         pending' = [pending EXCEPT
                       !.invoice = JObj(inv @@ [seen |-> NothingSeen, fetched |-> 0])]
    /\ UNCHANGED <<customers, menuItems, extras, advances, nextId, clock, ret, admitted,
                   auth, lockedAt, search>>

\* The next fetch of the invoice under way is served from the tables as they
\* are now; the computation waits for its next fetch or, after the last one
\* (or a customer not found, or a fetch that throws), returns.
InvoiceFetch ==
    /\ ret = Idle
    /\ pending.invoice # JNull
    /\ LET inv == pending.invoice.o
           k == inv.fetched + 1
           fetch == InvoiceFetches(inv.version)[k]
           seen == SeenAfter(inv.seen, fetch, Store)
           answer == Fetched(inv, fetch, seen)
           returns == \/ k = Len(InvoiceFetches(inv.version))
                      \/ answer.k = "throw"
                      \/ (fetch = "customer" /\ Falsy(answer))
       IN  /\ Served(<<InvoiceRequests(inv.version, inv.customerId, inv.year)[k]>>, inv.net)
           /\ IF returns
              THEN /\ ret' = [op |-> "generateInvoiceData", customerId |-> inv.customerId,
                              year |-> inv.year, month |-> inv.month,
                              version |-> inv.version, net |-> inv.net, tz |-> inv.tz,
                              seen |-> seen,
                              out |-> generateInvoiceData(inv.version, inv.net, inv.tz, seen,
                                                          inv.customerId, inv.year, inv.month)]
                   /\ pending' = [pending EXCEPT !.invoice = JNull]
              ELSE /\ ret' = ret
                   /\ pending' = [pending EXCEPT
                                    !.invoice = JObj([inv EXCEPT !.seen = seen, !.fetched = k])]
    /\ UNCHANGED <<nextId, clock, admitted, auth, lockedAt, search>>

InitInterleaved ==
    /\ TypeInit
    /\ extras = SeedTable
    /\ nextId = Len(extras) + 1
    /\ clock = 0
    /\ admitted = {Content(e) : e \in SeqToSet(extras)}

NextInterleaved ==
    \/ WriteExtra
    \/ RemoveExtra
    \/ AddAdvance
    \/ InvoiceCall
    \/ InvoiceFetch
    \/ Return

SpecInterleaved == InitInterleaved /\ [][NextInterleaved]_vars

\* The extras the computation went on with after its second fetch.
SeenExtras(r) ==
    AsList(getExtrasByCustomerAndMonth(r.version, r.net.extras, r.seen, r.tz,
                                       r.customerId, r.year, r.month))

\* The cells of the invoice agree with its meal totals: an entry the
\* computation saw is counted in the total of its meal exactly when the cell
\* of its date and meal is not "-", and each total is the sum of the prices
\* of the entries counted.
CellsAgree(r) ==
    LET rows == r.out.o.dateWiseData
        Counted(meal) ==
            SelectSeq(SeenExtras(r), LAMBDA e :
                /\ e.mealType = meal
                /\ \E day \in DOMAIN rows : rows[day].date = e.date /\ rows[day][meal] # "-")
        Total(meal) == AddPrices(0, Counted(meal))
        s == r.out.o.summary
    IN  /\ s.breakfastTotal = Total("breakfast")
        /\ s.lunchTotal = Total("lunch")
        /\ s.dinnerTotal = Total("dinner")
        /\ \A day \in DOMAIN rows : \A meal \in MealTypes :
             rows[day][meal] # "-" =>
                \E e \in SeqToSet(Counted(meal)) : e.date = rows[day].date

\* C30: an invoice returned by generateInvoiceData whose fetches were served
\* between writes of extras and advances has extrasTotal = breakfastTotal +
\* lunchTotal + dinnerTotal, grandTotal = subscriptionTotal + extrasTotal -
\* totalAdvance with totalAdvance in the summary, and cells that agree with
\* its totals.
C30_InterleavedInvoice ==
    IsInvoice(ret, "generateInvoiceData") =>
        LET s == ret.out.o.summary
        IN  /\ s.extrasTotal = JsAdd(JsAdd(s.breakfastTotal, s.lunchTotal), s.dinnerTotal)
            /\ s.totalAdvance # Undefined
            /\ s.grandTotal = JsSub(JsAdd(s.subscriptionTotal, s.extrasTotal), s.totalAdvance)
            /\ CellsAgree(ret)

\* The same of the first definition of DB alone.
C30_FirstDefinition ==
    (IsInvoice(ret, "generateInvoiceData") /\ ret.version = 1) => C30_InterleavedInvoice

\* The same of the second definition of DB without the advance.
C30_SecondDefinition ==
    (IsInvoice(ret, "generateInvoiceData") /\ ret.version = 2) =>
        LET s == ret.out.o.summary
        IN  /\ s.extrasTotal = JsAdd(JsAdd(s.breakfastTotal, s.lunchTotal), s.dinnerTotal)
            /\ s.grandTotal = JsAdd(s.subscriptionTotal, s.extrasTotal)
            /\ CellsAgree(ret)

\* An invoice of the first definition reflects a lunch that was removed before
\* the advance it deducts was recorded: no state of the store held both.
C30_NoSingleState ==
    /\ IsInvoice(ret, "generateInvoiceData") /\ ret.version = 1
    /\ ret.out.o.summary.lunchTotal = 80
    /\ ret.out.o.summary.totalAdvance = 500
    /\ ret.seen.advances # <<>>
    /\ ret.seen.extras # extras
    /\ \A e \in SeqToSet(extras) : ~(e.customerId = "c1" /\ e.mealType = "lunch")

====
